---- MODULE Spec2Model ----
(***************************************************************************)
(* Vision work queue, vision pipeline, upload handlers, plan synthesis,     *)
(* validation functions, week generation and plan service of the           *)
(* HillsFitness backend (project/backend).                                 *)
(*                                                                         *)
(* Units.  Lengths are integers in tenths of a centimetre, body-fat        *)
(* values integers in hundredths of a percentage point (the rounded final  *)
(* estimate in tenths), image quality an integer in thousandths.           *)
(***************************************************************************)
EXTENDS Integers, Sequences, FiniteSets, TLC

(***************************************************************************)
(* Bounds of the model.                                                    *)
(***************************************************************************)
NumClients == 2
TimeoutPolls == 2
\* The rows table plans is followed up to.
MaxPlans == 3

\* The clock of the callers shows the seconds 0..MaxSecond.
MaxSecond == 1

(***************************************************************************)
(* Program constants.                                                      *)
(***************************************************************************)
\* settings.vision_worker_concurrency
NumWorkers == 2
MinQualityScore == 700
DefaultHeightCm == 175
ErrorQuality == 200

None == "none"

Clients == 1..NumClients
Workers == 1..NumWorkers
Users == {"u1", "u2"}

Abs(x) == IF x < 0 THEN -x ELSE x
Min(a, b) == IF a < b THEN a ELSE b
Max(a, b) == IF a > b THEN a ELSE b
Clamp(lo, hi, x) == Max(lo, Min(hi, x))

\* Python round(): nearest, ties to even.  a / b for b > 0.
RoundDivPos(a, b) ==
    LET q == a \div b
        r == a % b
    IN  IF 2 * r > b THEN q + 1
        ELSE IF 2 * r < b THEN q
        ELSE IF q % 2 = 0 THEN q ELSE q + 1

RoundDiv(a, b) == IF a >= 0 THEN RoundDivPos(a, b) ELSE -RoundDivPos(-a, b)

\* 10000 * log10(k) for k = 10..100, at index k - 9.
Log10Table ==
    <<10000, 10414, 10792, 11139, 11461, 11761, 12041, 12304, 12553, 12788,
      13010, 13222, 13424, 13617, 13802, 13979, 14150, 14314, 14472, 14624,
      14771, 14914, 15051, 15185, 15315, 15441, 15563, 15682, 15798, 15911,
      16021, 16128, 16232, 16335, 16435, 16532, 16628, 16721, 16812, 16902,
      16990, 17076, 17160, 17243, 17324, 17404, 17482, 17559, 17634, 17709,
      17782, 17853, 17924, 17993, 18062, 18129, 18195, 18261, 18325, 18388,
      18451, 18513, 18573, 18633, 18692, 18751, 18808, 18865, 18921, 18976,
      19031, 19085, 19138, 19191, 19243, 19294, 19345, 19395, 19445, 19494,
      19542, 19590, 19638, 19685, 19731, 19777, 19823, 19868, 19912, 19956,
      20000>>

\* 10000 * log10(n) for an integer n >= 1: the decade, then the table with
\* linear interpolation below the second digit.
RECURSIVE Log10E4(_)
Log10E4(n) ==
    IF n >= 1000 THEN 10000 + Log10E4(n \div 10)
    ELSE IF n >= 100
    THEN LET k == n \div 10
             f == n % 10
         IN  10000 + Log10Table[k - 9]
               + ((Log10Table[k - 8] - Log10Table[k - 9]) * f) \div 10
    ELSE IF n >= 10 THEN Log10Table[n - 9]
    ELSE Log10Table[10 * n - 9] - 10000

\* floor(k * l / 100000) up to a thousandth, for a coefficient k in
\* thousandths and a logarithm l in ten-thousandths: hundredths.
MulLog(k, l) ==
    ((k \div 1000) * l * 10 + ((k % 1000) * l) \div 100) \div 1000

(***************************************************************************)
(* Vision pipeline (services/vision_pipeline.py).                          *)
(*                                                                         *)
(* An image is described by what the pipeline's library calls return on    *)
(* it: whether cv2.imread loads it, the quality score of                   *)
(* _assess_image_quality, the stage that raises (if any), whether          *)
(* MediaPipe finds a pose, the pose landmarks as the three pixel distances *)
(* _stage4_anthropometrics takes from them, and the edge density of the    *)
(* segmented image in percent.                                             *)
(***************************************************************************)
IsMale(sex) == sex \in {"male", "m"}
IsFemale(sex) == sex \in {"female", "f"}

error_response(error_type, quality_score) ==
    [error |-> error_type,
     anthro |-> [shoulder_cm |-> 450, waist_cm |-> 800, hip_cm |-> 900,
                 chest_cm |-> 380, neck_cm |-> 160, thigh_cm |-> 360,
                 arm_cm |-> 140],
     bf_estimate |-> 200,
     imageQuality |-> quality_score,
     confidence |-> "low"]

\* pixel distance * pixel_to_cm_ratio * factor/100, rounded to 0.1 cm.  The
\* ratio is user_height_cm / body_height_px, or 0.3 when the body height is 0.
ScaledCm(px, factor, user_height_cm, body_height_px) ==
    IF body_height_px > 0
    THEN RoundDiv(10 * px * user_height_cm * factor, body_height_px * 100)
    ELSE RoundDiv(3 * px * factor, 100)

stage4_anthropometrics(landmarks, user_height_cm) ==
    LET S(f) == ScaledCm(landmarks.shoulder_px, f, user_height_cm,
                         landmarks.body_px)
        H(f) == ScaledCm(landmarks.hip_px, f, user_height_cm,
                         landmarks.body_px)
    IN  [shoulder_cm |-> S(100), waist_cm |-> S(75), hip_cm |-> H(100),
         chest_cm |-> S(85), neck_cm |-> S(35), thigh_cm |-> H(40),
         arm_cm |-> S(30)]

\* math.log10 raises ValueError on an argument <= 0: the default is returned.
calculate_navy_body_fat(waist_cm, neck_cm, height_cm, sex, hip_cm) ==
    LET hip == IF hip_cm = 0 THEN RoundDiv(waist_cm * 11, 10) ELSE hip_cm
        arg == IF IsMale(sex) THEN waist_cm - neck_cm
               ELSE waist_cm + hip - neck_cm
        k1  == IF IsMale(sex) THEN 86010 ELSE 163205
        k2  == IF IsMale(sex) THEN 70041 ELSE 97684
        k3  == IF IsMale(sex) THEN 3676 ELSE -7839
    IN  IF arg <= 0 \/ height_cm <= 0
        THEN IF IsMale(sex) THEN 1500 ELSE 2300
        ELSE Clamp(300, 5000,
                   MulLog(k1, Log10E4(arg) - 10000)
                      - MulLog(k2, Log10E4(height_cm)) + k3)

estimate_visual_body_fat(edge_pct, sex) ==
    LET base_bf == IF IsFemale(sex) THEN 2500 ELSE 1800
    IN  Clamp(800, 4500, base_bf + (50 - edge_pct) * 20)

estimate_ratio_body_fat(anthro, sex) ==
    LET waist == anthro.waist_cm
        hip   == anthro.hip_cm
        \* whr < t/100, with whr = waist / hip if hip > 0 else 0.8
        Below(t) == IF hip > 0 THEN 100 * waist < t * hip ELSE 80 < t
    IN  IF IsMale(sex)
        THEN IF Below(85) THEN 1200 ELSE IF Below(95) THEN 1800 ELSE 2500
        ELSE IF Below(75) THEN 1600 ELSE IF Below(85) THEN 2300 ELSE 3200

\* <<bf_estimate in tenths, confidence>>
stage5_body_composition(edge_pct, anthro, user_height_cm, user_sex) ==
    LET navy_bf   == calculate_navy_body_fat(anthro.waist_cm, anthro.neck_cm,
                         user_height_cm, user_sex, anthro.hip_cm)
        visual_bf == estimate_visual_body_fat(edge_pct, user_sex)
        ratio_bf  == estimate_ratio_body_fat(anthro, user_sex)
        \* ten times the weighted sum, in hundredths
        final10   == 5 * navy_bf + 3 * visual_bf + 2 * ratio_bf
        dev(bf)   == Abs(10 * bf - final10)
        max_deviation == Max(dev(navy_bf), Max(dev(visual_bf), dev(ratio_bf)))
    IN  <<RoundDiv(final10, 100),
          IF max_deviation < 3000 THEN "high"
          ELSE IF max_deviation < 6000 THEN "medium" ELSE "low">>

stage6_output_json(anthro_data, bf_estimate, quality_score, confidence) ==
    [error |-> None,
     anthro |-> anthro_data,
     bf_estimate |-> bf_estimate,
     imageQuality |-> 10 * RoundDiv(quality_score, 10),
     confidence |-> confidence]

\* An exception in stage 2 is caught there and the unmasked image is used; one
\* in stage 3 is caught there and reported as no landmarks; any other reaches
\* the handler of process_image.
process_image(img, user_height_cm, user_sex) ==
    IF ~img.readable \/ img.raises = "stage1"
    THEN error_response("processing_failed", ErrorQuality)
    ELSE IF img.quality < MinQualityScore
    THEN error_response("low_quality", img.quality)
    ELSE IF ~img.pose_found \/ img.raises = "stage3"
    THEN error_response("pose_detection_failed", img.quality)
    ELSE IF img.raises \in {"stage4", "stage5", "stage6"}
    THEN error_response("processing_failed", ErrorQuality)
    ELSE LET anthro_data == stage4_anthropometrics(img.landmarks, user_height_cm)
             bc == stage5_body_composition(img.edge_pct, anthro_data,
                                           user_height_cm, user_sex)
         IN  stage6_output_json(anthro_data, bc[1], img.quality, bc[2])

(***************************************************************************)
(* Files on disk, by path.                                                 *)
(***************************************************************************)
Pose(shoulder_px, hip_px, body_px) ==
    [shoulder_px |-> shoulder_px, hip_px |-> hip_px, body_px |-> body_px]

Image(exists, readable, raises, quality, pose_found, landmarks, edge_pct) ==
    [exists |-> exists, readable |-> readable, raises |-> raises,
     quality |-> quality, pose_found |-> pose_found, landmarks |-> landmarks,
     edge_pct |-> edge_pct]

Files ==
    [p \in {"missing.jpg", "corrupt.jpg", "blurry.jpg", "nopose.jpg",
            "good.jpg", "profile.jpg", "cverror.jpg"} |->
        CASE p = "missing.jpg" ->
               Image(FALSE, FALSE, None, 0, FALSE, Pose(0, 0, 0), 0)
          [] p = "corrupt.jpg" ->
               Image(TRUE, FALSE, None, 0, FALSE, Pose(0, 0, 0), 0)
          [] p = "blurry.jpg" ->
               Image(TRUE, TRUE, None, 699, TRUE, Pose(100, 90, 400), 10)
          [] p = "nopose.jpg" ->
               Image(TRUE, TRUE, None, 850, FALSE, Pose(0, 0, 0), 10)
          [] p = "good.jpg" ->
               Image(TRUE, TRUE, None, 700, TRUE, Pose(100, 90, 400), 10)
          [] p = "profile.jpg" ->
               Image(TRUE, TRUE, None, 850, TRUE, Pose(0, 90, 400), 10)
          [] p = "cverror.jpg" ->
               Image(TRUE, TRUE, "stage4", 850, TRUE, Pose(100, 90, 400), 10)]

(***************************************************************************)
(* Vision work queue (workers/vision_worker.py).                           *)
(*                                                                         *)
(* A Redis list is a sequence whose first element is its left end.  Every  *)
(* Redis command is one atomic step; what a process does between two       *)
(* commands on its own variables belongs to the step of the command        *)
(* before.                                                                 *)
(***************************************************************************)
VARIABLES
    input_queue,    \* list "vision_input"
    output_queue,   \* list "vision_output"
    error_queue,    \* list "vision_errors"
    keys,           \* string keys "vision_done:<user>": <<>> or <<value>>
    wpc,            \* worker: "brpop", "process", "notify"
    wtask,          \* worker: <<>> or <<the task it took>>
    cpc,            \* caller: position in its call
    ctask,          \* caller: <<>> or <<the task it enqueued>>
    cheld,          \* caller: <<>> or <<the entry it popped and must put back>>
    cret,           \* caller: <<>> or <<the entry its wait returned>>
    elapsed,        \* caller: polling intervals slept in its wait
    \* History, read by the properties only.
    nenq,           \* number of tasks enqueued so far
    deq_log,        \* enqueue ordinals of the tasks taken, in the order taken
    pub_log,        \* every <<stream, entry, k>> pushed by a worker, k counting
                    \* the pushes for the entry's task
    channel_log,    \* per user, the messages PUBLISHed on "vision_done:<user>"
    \* The API process (main.py, api/specification_endpoints.py).
    redis_url,      \* settings.redis_url is set
    resp,           \* request: <<>> or <<the HTTP response>>
    direct,         \* request: the pipeline calls its handler made itself, as
                    \* [by |-> the handler, result |-> what the call returned]
    vision_metrics, \* per user, table vision_metrics of main.py, oldest first
    vision_analyses,\* per user, the stored vision analyses, oldest first
    plans,          \* the stored plans
    \* One call that is followed on its own: a run of the vision pipeline
    \* (services/vision_pipeline.py), a call of one of its stages, of a
    \* validation function or of the week generation.
    pin,            \* the arguments of the call; process_image:
                    \* [img, user_height_cm, user_sex]
    ppc,            \* the step the call is about to take, or "done"
    pran,           \* process_image: the stages that have run; the week
                    \* generation: its local variables
    pcaught,        \* where an exception of the run was caught, if anywhere
    pres,           \* <<>> or <<what the call returned>>
    \* One plan request (api/specification_endpoints.py,
    \* services/llm_plan_generator.py).
    contract,       \* the stored documents of the user: profile, wizard, vision
    generated,      \* <<>> or <<what GymAICoachLLM.generate_plan returned>>
    generated_plans,\* the plans stored by generate_complete_plan, oldest first
    plan_resp,      \* <<>> or <<the HTTP response of the request>>
    \* The plan service and its tables (services/user_service.py,
    \* database/database.py).
    db_plans,         \* table plans, in the order of insertion
    user_measurements,\* table user_measurements, in the order of insertion
    check_ins,        \* per user, the number of rows of table check_ins
    svc_out           \* <<>> or <<the outcome of the last call>>

apivars == <<redis_url, resp, direct, vision_metrics, vision_analyses, plans>>

pipevars == <<pin, ppc, pran, pcaught, pres>>

planvars == <<contract, generated, generated_plans, plan_resp>>

svcvars == <<db_plans, user_measurements, check_ins, svc_out>>

extvars == <<pipevars, planvars, svcvars>>

vars == <<input_queue, output_queue, error_queue, keys, wpc, wtask, cpc,
          ctask, cheld, cret, elapsed, nenq, deq_log, pub_log, channel_log,
          apivars, extvars>>

\* No pipeline run is being followed.
PipeIdle ==
    /\ pin = <<>>
    /\ ppc = "idle"
    /\ pran = {}
    /\ pcaught = None
    /\ pres = <<>>

\* No plan request is being followed.
PlanIdle ==
    /\ contract = <<>>
    /\ generated = <<>>
    /\ generated_plans = <<>>
    /\ plan_resp = <<>>

\* The tables of the plan service are empty.
ServiceTablesEmpty ==
    /\ db_plans = <<>>
    /\ user_measurements = <<>>
    /\ check_ins = [u \in Users |-> 0]
    /\ svc_out = <<>>

ExtIdle == PipeIdle /\ PlanIdle /\ ServiceTablesEmpty

UserOf(c) == IF c % 2 = 1 THEN "u1" ELSE "u2"

\* Table user_data of main.py: u1 has stored none, u2 a height and a sex.
user_data ==
    [u \in Users |->
        IF u = "u1" THEN <<>> ELSE <<[height |-> 160, sex |-> "female"]>>]

\* `user_data.get("height", 175.0) if user_data else 175.0`
HeightOf(u) ==
    IF user_data[u] # <<>> THEN user_data[u][1].height ELSE DefaultHeightCm

SexOf(u) == IF user_data[u] # <<>> THEN user_data[u][1].sex ELSE "male"

\* The images the callers of the queue upload.
QueueImages == {"good.jpg", "missing.jpg", "blurry.jpg"}

lpush(q, x) == <<x>> \o q

\* A pop at the end LPUSH writes to (LPOP).
LeftPopIndex(q) == 1

\* RPOP and BRPOP take the right end.
PopIndex(q) == Len(q)

Popped(q) == q[PopIndex(q)]

AfterPop(q) == [i \in 1..(Len(q) - 1) |-> IF i < PopIndex(q) THEN q[i] ELSE q[i + 1]]

\* str(uuid.uuid4()) of caller c's call: fresh.
Uuid4(c) == c

TaskData(task_id, c, image_path) ==
    [task_id |-> task_id, user_id |-> UserOf(c), image_path |-> image_path,
     user_height_cm |-> HeightOf(UserOf(c)), user_sex |-> SexOf(UserOf(c)),
     n |-> nenq + 1]

\* The pipeline object a worker or a handler holds: process_image is stateless
\* and deterministic, so its results are tabulated once for the images, heights
\* and sexes of the requests.
Heights == {DefaultHeightCm, 160}

Sexes == {"male", "female"}

vision_pipeline ==
    [p \in DOMAIN Files, h \in Heights, s \in Sexes |->
        process_image(Files[p], h, s)]

process_vision_task(task_data) ==
    IF ~Files[task_data.image_path].exists
    THEN [task_id |-> task_data.task_id, user_id |-> task_data.user_id,
          n |-> task_data.n, error |-> "Image not found",
          error_type |-> "FileNotFoundError"]
    ELSE LET result == vision_pipeline[task_data.image_path,
                           task_data.user_height_cm, task_data.user_sex]
         IN  [task_id |-> task_data.task_id, user_id |-> task_data.user_id,
              n |-> task_data.n, error |-> result.error, record |-> result]

\* The pushes recorded for the task with enqueue ordinal n.
PushesFor(n) == {x \in pub_log : x[2].n = n}

Pushed(stream, result) ==
    <<stream, result, Cardinality(PushesFor(result.n)) + 1>>

\* A test for the exception entries only, which misses the error records of the
\* pipeline.
HasErrorType(result) == "error_type" \in DOMAIN result

\* `"error" in result`
HasError(result) == result.error # None

Init ==
    /\ input_queue = <<>>
    /\ output_queue = <<>>
    /\ error_queue = <<>>
    /\ keys = [u \in Users |-> <<>>]
    /\ wpc = [w \in Workers |-> "brpop"]
    /\ wtask = [w \in Workers |-> <<>>]
    /\ cpc = [c \in Clients |-> "idle"]
    /\ ctask = [c \in Clients |-> <<>>]
    /\ cheld = [c \in Clients |-> <<>>]
    /\ cret = [c \in Clients |-> <<>>]
    /\ elapsed = [c \in Clients |-> 0]
    /\ nenq = 0
    /\ deq_log = <<>>
    /\ pub_log = {}
    /\ channel_log = [u \in Users |-> {}]
    /\ redis_url = TRUE
    /\ resp = [c \in Clients |-> <<>>]
    /\ direct = [c \in Clients |-> <<>>]
    /\ vision_metrics = [u \in Users |-> <<>>]
    /\ vision_analyses = [u \in Users |-> <<>>]
    /\ plans = {}
    /\ ExtIdle

(***************************************************************************)
(* Callers: enqueueing.                                                    *)
(***************************************************************************)
Enqueue(c, task_id, image_path, pc) ==
    /\ cpc[c] = "idle"
    /\ input_queue' = lpush(input_queue, TaskData(task_id, c, image_path))
    /\ ctask' = [ctask EXCEPT ![c] = <<TaskData(task_id, c, image_path)>>]
    /\ cpc' = [cpc EXCEPT ![c] = pc]
    /\ nenq' = nenq + 1
    /\ UNCHANGED <<output_queue, error_queue, keys, wpc, wtask, cheld,
                   cret, elapsed, deq_log, pub_log, channel_log,
                   apivars, extvars>>

\* VisionQueueClient.queue_async; the caller then waits in get_task_result.
QueueAsync(c, image_path) == Enqueue(c, Uuid4(c), image_path, "poll_out")

\* VisionQueueClient.queue_and_wait up to its LPUSH.
QueueAndWaitPush(c, image_path) == Enqueue(c, Uuid4(c), image_path, "get")

\* A loop test that lets one more polling interval pass.
LateTimedOut(e) == e > TimeoutPolls

(***************************************************************************)
(* Callers: waiting.                                                       *)
(***************************************************************************)
\* Time is counted in polling intervals (the sleep of 0.1 s that ends an
\* iteration): `while time.time() - start_time < timeout` is left once
\* TimeoutPolls of them have passed.
TimedOut(e) == e >= TimeoutPolls

\* A waiter that keeps what it popped.
RequeueDropped(q, entry) == q

\* The entry a waiter popped and does not own goes back with LPUSH.
Requeue(q, entry) == lpush(q, entry)

\* The loop is left and TimeoutError raised.
WaitTimeout(c) ==
    /\ cpc[c] \in {"poll_out", "get"}
    /\ TimedOut(elapsed[c])
    /\ cpc' = [cpc EXCEPT ![c] = "timeout"]
    /\ UNCHANGED <<input_queue, output_queue, error_queue, keys, wpc,
                   wtask, ctask, cheld, cret, elapsed, nenq, deq_log, pub_log,
                   channel_log, apivars, extvars>>

\* get_task_result: RPOP of the output queue and the comparison of the ids.
PollOutput(c) ==
    /\ cpc[c] = "poll_out"
    /\ ~TimedOut(elapsed[c])
    /\ IF output_queue = <<>>
       THEN /\ cpc' = [cpc EXCEPT ![c] = "poll_err"]
            /\ UNCHANGED <<output_queue, cheld, cret>>
       ELSE /\ output_queue' = AfterPop(output_queue)
            /\ IF Popped(output_queue).task_id = ctask[c][1].task_id
               THEN /\ cret' = [cret EXCEPT ![c] = <<Popped(output_queue)>>]
                    /\ cpc' = [cpc EXCEPT ![c] = "done"]
                    /\ UNCHANGED cheld
               ELSE /\ cheld' = [cheld EXCEPT ![c] = <<Popped(output_queue)>>]
                    /\ cpc' = [cpc EXCEPT ![c] = "requeue_out"]
                    /\ UNCHANGED cret
    /\ UNCHANGED <<input_queue, error_queue, keys, wpc, wtask, ctask,
                   elapsed, nenq, deq_log, pub_log, channel_log,
                   apivars, extvars>>

\* get_task_result: LPUSH of the entry of another task back on the output queue.
RequeueOutput(c) ==
    /\ cpc[c] = "requeue_out"
    /\ output_queue' = Requeue(output_queue, cheld[c][1])
    /\ cheld' = [cheld EXCEPT ![c] = <<>>]
    /\ cpc' = [cpc EXCEPT ![c] = "poll_err"]
    /\ UNCHANGED <<input_queue, error_queue, keys, wpc, wtask, ctask,
                   cret, elapsed, nenq, deq_log, pub_log, channel_log,
                   apivars, extvars>>

\* get_task_result: RPOP of the error queue; with nothing to put back, the
\* sleep of one polling interval.
PollError(c) ==
    /\ cpc[c] = "poll_err"
    /\ IF error_queue = <<>>
       THEN /\ cpc' = [cpc EXCEPT ![c] = "poll_out"]
            /\ elapsed' = [elapsed EXCEPT ![c] = @ + 1]
            /\ UNCHANGED <<error_queue, cheld, cret>>
       ELSE /\ error_queue' = AfterPop(error_queue)
            /\ IF Popped(error_queue).task_id = ctask[c][1].task_id
               THEN /\ cret' = [cret EXCEPT ![c] = <<Popped(error_queue)>>]
                    /\ cpc' = [cpc EXCEPT ![c] = "done"]
                    /\ UNCHANGED <<cheld, elapsed>>
               ELSE /\ cheld' = [cheld EXCEPT ![c] = <<Popped(error_queue)>>]
                    /\ cpc' = [cpc EXCEPT ![c] = "requeue_err"]
                    /\ UNCHANGED <<cret, elapsed>>
    /\ UNCHANGED <<input_queue, output_queue, keys, wpc, wtask, ctask,
                   nenq, deq_log, pub_log, channel_log,
                   apivars, extvars>>

\* get_task_result: LPUSH of the entry of another task back on the error
\* queue, and the sleep.
RequeueError(c) ==
    /\ cpc[c] = "requeue_err"
    /\ error_queue' = Requeue(error_queue, cheld[c][1])
    /\ cheld' = [cheld EXCEPT ![c] = <<>>]
    /\ cpc' = [cpc EXCEPT ![c] = "poll_out"]
    /\ elapsed' = [elapsed EXCEPT ![c] = @ + 1]
    /\ UNCHANGED <<input_queue, output_queue, keys, wpc, wtask, ctask,
                   cret, nenq, deq_log, pub_log, channel_log,
                   apivars, extvars>>

\* queue_and_wait: GET of the key "vision_done:<user>", DEL and return on a
\* value with the caller's task id, else the sleep.
QueueAndWaitGet(c) ==
    /\ cpc[c] = "get"
    /\ ~TimedOut(elapsed[c])
    /\ IF /\ keys[UserOf(c)] # <<>>
          /\ keys[UserOf(c)][1].task_id = ctask[c][1].task_id
       THEN /\ keys' = [keys EXCEPT ![UserOf(c)] = <<>>]
            /\ cret' = [cret EXCEPT ![c] = keys[UserOf(c)]]
            /\ cpc' = [cpc EXCEPT ![c] = "done"]
            /\ UNCHANGED elapsed
       ELSE /\ elapsed' = [elapsed EXCEPT ![c] = @ + 1]
            /\ UNCHANGED <<keys, cret, cpc>>
    /\ UNCHANGED <<input_queue, output_queue, error_queue, wpc, wtask,
                   ctask, cheld, nenq, deq_log, pub_log, channel_log,
                   apivars, extvars>>

(***************************************************************************)
(* Workers: run_worker.                                                    *)
(***************************************************************************)
\* A worker that takes the next task while the one it holds is unpublished.
WorkerTakeWhileBusy(w) ==
    /\ wpc[w] \in {"brpop", "process"}
    /\ input_queue # <<>>
    /\ input_queue' = AfterPop(input_queue)
    /\ wtask' = [wtask EXCEPT ![w] = <<Popped(input_queue)>>]
    /\ wpc' = [wpc EXCEPT ![w] = "process"]
    /\ deq_log' = Append(deq_log, Popped(input_queue).n)
    /\ UNCHANGED <<output_queue, error_queue, keys, cpc, ctask, cheld,
                   cret, elapsed, nenq, pub_log, channel_log,
                   apivars, extvars>>

\* BRPOP of the input queue.
WorkerTake(w) ==
    /\ wpc[w] = "brpop"
    /\ input_queue # <<>>
    /\ input_queue' = AfterPop(input_queue)
    /\ wtask' = [wtask EXCEPT ![w] = <<Popped(input_queue)>>]
    /\ wpc' = [wpc EXCEPT ![w] = "process"]
    /\ deq_log' = Append(deq_log, Popped(input_queue).n)
    /\ UNCHANGED <<output_queue, error_queue, keys, cpc, ctask, cheld,
                   cret, elapsed, nenq, pub_log, channel_log,
                   apivars, extvars>>

\* process_vision_task in the executor, then the LPUSH of its result on the
\* error queue or on the output queue.
WorkerPublish(w) ==
    /\ wpc[w] = "process"
    /\ LET result == process_vision_task(wtask[w][1])
       IN  IF HasError(result)
           THEN /\ error_queue' = lpush(error_queue, result)
                /\ pub_log' = pub_log \cup {Pushed("error", result)}
                /\ wpc' = [wpc EXCEPT ![w] = "brpop"]
                /\ UNCHANGED output_queue
           ELSE /\ output_queue' = lpush(output_queue, result)
                /\ pub_log' = pub_log \cup {Pushed("output", result)}
                /\ wpc' = [wpc EXCEPT ![w] = "notify"]
                /\ UNCHANGED error_queue
    /\ UNCHANGED <<input_queue, keys, wtask, cpc, ctask, cheld, cret,
                   elapsed, nenq, deq_log, channel_log,
                   apivars, extvars>>

\* PUBLISH of the result on "vision_done:<user>".  No process of the program
\* subscribes to the channel, so the message reaches no one and Redis keeps
\* nothing of it; PUBLISH does not write the string key of that name.
WorkerNotify(w) ==
    /\ wpc[w] = "notify"
    /\ channel_log' = [channel_log EXCEPT ![wtask[w][1].user_id] =
                          @ \cup {process_vision_task(wtask[w][1])}]
    /\ wpc' = [wpc EXCEPT ![w] = "brpop"]
    /\ UNCHANGED <<input_queue, output_queue, error_queue, keys, wtask,
                   cpc, ctask, cheld, cret, elapsed, nenq, deq_log, pub_log,
                   apivars, extvars>>

WaitStep(c) ==
    \/ PollOutput(c)
    \/ RequeueOutput(c)
    \/ PollError(c)
    \/ RequeueError(c)
    \/ QueueAndWaitGet(c)
    \/ WaitTimeout(c)

WorkerStep(w) == WorkerTake(w) \/ WorkerPublish(w) \/ WorkerNotify(w)

Next ==
    \/ \E c \in Clients, image_path \in QueueImages :
          \/ QueueAsync(c, image_path)
          \/ QueueAndWaitPush(c, image_path)
    \/ \E c \in Clients : WaitStep(c)
    \/ \E w \in Workers : WorkerStep(w)

Spec == Init /\ [][Next]_vars

\* A worker process keeps running its loop, and a caller inside a wait keeps
\* running its loop.
FairSpec ==
    /\ Spec
    /\ \A w \in Workers : WF_vars(WorkerStep(w))
    /\ \A c \in Clients : WF_vars(WaitStep(c))

(***************************************************************************)
(* The queue with the callers of VisionWorker.queue_vision_task among its  *)
(* callers.  Task ids are numbers here: the uuids are the numbers of the   *)
(* callers, the ids made from the clock the numbers after them.            *)
(***************************************************************************)
\* int(time.time()) at a call
Seconds == 0..MaxSecond

\* f"task_{int(time.time())}"
DefaultTaskId(now) == NumClients + 1 + now

\* task_data.get("task_id", f"task_{int(time.time())}") for a task_data whose
\* "task_id" is given (<<id>>) or absent (<<>>)
TaskIdOrDefault(given, now) ==
    IF given # <<>> THEN given[1] ELSE DefaultTaskId(now)

\* VisionWorker.queue_vision_task at second now; the caller then waits in
\* get_task_result with the id returned.
QueueVisionTask(c, given, image_path, now) ==
    Enqueue(c, TaskIdOrDefault(given, now), image_path, "poll_out")

NextWithDefaultIds ==
    \/ Next
    \/ \E c \in Clients, image_path \in QueueImages, now \in Seconds :
          \E given \in {<<>>, <<Uuid4(c)>>} :
             QueueVisionTask(c, given, image_path, now)

SpecWithDefaultIds == Init /\ [][NextWithDefaultIds]_vars

(***************************************************************************)
(* The API process: the upload handlers of main.py and of                  *)
(* api/specification_endpoints.py.  A caller of the queue is here the      *)
(* handler of one request; a handler that does not wait on the queue runs  *)
(* from the request to the response in one step.                           *)
(***************************************************************************)
\* The files users upload; a handler saves the upload before it analyses it.
ApiImages == {"good.jpg", "nopose.jpg", "profile.jpg", "blurry.jpg",
              "corrupt.jpg"}

\* The literal 0.70 of the quality gate of upload_and_analyze_image.
QualityGate == 700

\* The latest wizard data of a user: u1 has submitted some, u2 none.
wizard_data ==
    [u \in Users |-> IF u = "u1" THEN <<[heightCm |-> 175]>> ELSE <<>>]

\* The age in the stored profile of a user.
profile_age == [u \in Users |-> IF u = "u1" THEN 30 ELSE 12]

HTTPException(status_code, error) ==
    [status |-> status_code, error |-> error, body |-> <<>>]

Success(body) == [status |-> 200, error |-> None, body |-> <<body>>]

\* main.py creates its own pipeline when it created a queue client as well.
AlwaysInitialised(url) == TRUE

\* main.py: `if not vision_queue_client: vision_pipeline = EnhancedVisionPipeline()`,
\* the queue client existing exactly if settings.redis_url is set.
PipelineInitialised(url) == ~url

\* The result a call of vision_pipeline.process_image of a handler returns.
DirectCall(c, file, height_cm, sex) == vision_pipeline[file, height_cm, sex]

\* What queue_and_wait returned is the entry of the worker: the record of the
\* pipeline, or the error entry of process_vision_task.
VisionResultOf(entry) ==
    IF "record" \in DOMAIN entry THEN entry.record ELSE [error |-> entry.error]

\* upload_image from the result of process_vision_analysis on: 422 for a
\* result with an "error" key, otherwise the result is stored and returned.
UploadImageResult(c, vision_result) ==
    IF vision_result.error # None
    THEN /\ resp' = [resp EXCEPT
                        ![c] = <<HTTPException(422, vision_result.error)>>]
         /\ UNCHANGED vision_metrics
    ELSE /\ vision_metrics' = [vision_metrics EXCEPT
                                  ![UserOf(c)] = Append(@, vision_result)]
         /\ resp' = [resp EXCEPT ![c] = <<Success(vision_result)>>]

\* process_vision_analysis without a result from the queue, and upload_image
\* after it: the direct call if main.py has a pipeline, otherwise 503.
DirectOrUnavailable(c, file) ==
    IF PipelineInitialised(redis_url)
    THEN LET result == DirectCall(c, file, HeightOf(UserOf(c)),
                                  SexOf(UserOf(c)))
         IN  /\ direct' = [direct EXCEPT ![c] =
                             Append(@, [by |-> "upload_image",
                                        result |-> result])]
             /\ UploadImageResult(c, result)
    ELSE /\ resp' = [resp EXCEPT ![c] = <<HTTPException(503, None)>>]
         /\ UNCHANGED <<direct, vision_metrics>>

\* upload_image: an upload that is no image or is too large is refused.
UploadImageReject(c) ==
    /\ cpc[c] = "idle"
    /\ resp' = [resp EXCEPT ![c] = <<HTTPException(400, None)>>]
    /\ cpc' = [cpc EXCEPT ![c] = "responded"]
    /\ UNCHANGED <<input_queue, output_queue, error_queue, keys, wpc, wtask,
                   ctask, cheld, cret, elapsed, nenq, deq_log, pub_log,
                   channel_log, redis_url, direct, vision_metrics,
                   vision_analyses, plans, extvars>>

\* upload_image with a queue client, up to the LPUSH of queue_and_wait.
UploadImageQueue(c, file) ==
    /\ redis_url
    /\ QueueAndWaitPush(c, file)

\* upload_image with a queue client, after queue_and_wait returned or raised.
UploadImageResume(c) ==
    /\ cpc[c] \in {"done", "timeout"}
    /\ IF cpc[c] = "done"
       THEN /\ UploadImageResult(c, VisionResultOf(cret[c][1]))
            /\ UNCHANGED direct
       ELSE DirectOrUnavailable(c, ctask[c][1].image_path)
    /\ cpc' = [cpc EXCEPT ![c] = "responded"]
    /\ UNCHANGED <<input_queue, output_queue, error_queue, keys, wpc, wtask,
                   ctask, cheld, cret, elapsed, nenq, deq_log, pub_log,
                   channel_log, redis_url, vision_analyses, plans, extvars>>

\* upload_image without a queue client.
UploadImageDirect(c, file) ==
    /\ cpc[c] = "idle"
    /\ ~redis_url
    /\ DirectOrUnavailable(c, file)
    /\ cpc' = [cpc EXCEPT ![c] = "responded"]
    /\ UNCHANGED <<input_queue, output_queue, error_queue, keys, wpc, wtask,
                   ctask, cheld, cret, elapsed, nenq, deq_log, pub_log,
                   channel_log, redis_url, vision_analyses, plans, extvars>>

\* The constraints of VisionAnalysisResult and AnthropometricMeasurements.
ValidVisionAnalysisResult(v) ==
    /\ v.quality >= 0 /\ v.quality <= 1000
    /\ v.quality >= 700
    /\ v.bfEstimate >= 30 /\ v.bfEstimate <= 600
    /\ v.anthro.waistCm >= 500 /\ v.anthro.waistCm <= 2000
    /\ v.anthro.hipCm >= 600 /\ v.anthro.hipCm <= 2000
    /\ v.anthro.shoulderCm >= 300 /\ v.anthro.shoulderCm <= 800

\* db.store_vision_analysis; `of` remembers the pipeline result the analysis
\* was made from and is read by the properties only.
store_vision_analysis(user_id, vision_analysis, vision_result) ==
    vision_analyses' = [vision_analyses EXCEPT ![user_id] =
                           Append(@, [analysis |-> vision_analysis,
                                      of |-> vision_result])]

\* db.get_latest_vision_analysis
get_latest_vision_analysis(user_id) ==
    IF vision_analyses[user_id] = <<>> THEN <<>>
    ELSE <<vision_analyses[user_id][Len(vision_analyses[user_id])]>>

\* upload_and_analyze_image
UploadAndAnalyzeImage(c, file, is_image) ==
    /\ cpc[c] = "idle"
    /\ cpc' = [cpc EXCEPT ![c] = "responded"]
    /\ IF ~is_image \/ wizard_data[UserOf(c)] = <<>>
       THEN /\ resp' = [resp EXCEPT ![c] = <<HTTPException(400, None)>>]
            /\ UNCHANGED <<direct, vision_analyses>>
       ELSE LET vision_result ==
                    DirectCall(c, file, wizard_data[UserOf(c)][1].heightCm,
                               "male")
                image_quality == vision_result.imageQuality
                vision_analysis ==
                    [quality |-> image_quality,
                     bfEstimate |-> vision_result.bf_estimate,
                     anthro |-> [waistCm |-> vision_result.anthro.waist_cm,
                                 hipCm |-> vision_result.anthro.hip_cm,
                                 shoulderCm |->
                                     vision_result.anthro.shoulder_cm]]
            IN  /\ direct' = [direct EXCEPT ![c] =
                                Append(@, [by |-> "upload_and_analyze_image",
                                           result |-> vision_result])]
                /\ IF image_quality < QualityGate
                   THEN /\ resp' = [resp EXCEPT ![c] =
                               <<HTTPException(422, "low_quality_image")>>]
                        /\ UNCHANGED vision_analyses
                   ELSE IF ~ValidVisionAnalysisResult(vision_analysis)
                   THEN /\ resp' = [resp EXCEPT ![c] =
                               <<HTTPException(500, None)>>]
                        /\ UNCHANGED vision_analyses
                   ELSE /\ store_vision_analysis(UserOf(c), vision_analysis,
                                                 vision_result)
                        /\ resp' = [resp EXCEPT ![c] =
                               <<Success(vision_analysis)>>]
    /\ UNCHANGED <<input_queue, output_queue, error_queue, keys, wpc, wtask,
                   ctask, cheld, cret, elapsed, nenq, deq_log, pub_log,
                   channel_log, redis_url, vision_metrics, plans, extvars>>

\* generate_complete_plan: the plan is made from the latest stored vision
\* analysis and stored, except for a user younger than 13.
GenerateCompletePlan(u) ==
    /\ wizard_data[u] # <<>>
    /\ get_latest_vision_analysis(u) # <<>>
    /\ ValidVisionAnalysisResult(get_latest_vision_analysis(u)[1].analysis)
    /\ profile_age[u] >= 13
    /\ plans' = plans \cup {[user_id |-> u,
                             vision |-> get_latest_vision_analysis(u)[1]]}
    /\ UNCHANGED <<input_queue, output_queue, error_queue, keys, wpc, wtask,
                   cpc, ctask, cheld, cret, elapsed, nenq, deq_log, pub_log,
                   channel_log, redis_url, resp, direct, vision_metrics,
                   vision_analyses, extvars>>

InitApi ==
    /\ input_queue = <<>>
    /\ output_queue = <<>>
    /\ error_queue = <<>>
    /\ keys = [u \in Users |-> <<>>]
    /\ wpc = [w \in Workers |-> "brpop"]
    /\ wtask = [w \in Workers |-> <<>>]
    /\ cpc = [c \in Clients |-> "idle"]
    /\ ctask = [c \in Clients |-> <<>>]
    /\ cheld = [c \in Clients |-> <<>>]
    /\ cret = [c \in Clients |-> <<>>]
    /\ elapsed = [c \in Clients |-> 0]
    /\ nenq = 0
    /\ deq_log = <<>>
    /\ pub_log = {}
    /\ channel_log = [u \in Users |-> {}]
    /\ redis_url \in BOOLEAN
    /\ resp = [c \in Clients |-> <<>>]
    /\ direct = [c \in Clients |-> <<>>]
    /\ vision_metrics = [u \in Users |-> <<>>]
    /\ vision_analyses = [u \in Users |-> <<>>]
    /\ plans = {}
    /\ ExtIdle

NextApi ==
    \/ \E c \in Clients :
          \/ UploadImageReject(c)
          \/ \E file \in ApiImages : UploadImageQueue(c, file)
          \/ \E file \in ApiImages : UploadImageDirect(c, file)
          \/ QueueAndWaitGet(c)
          \/ WaitTimeout(c)
          \/ UploadImageResume(c)
          \/ \E file \in ApiImages, is_image \in BOOLEAN :
                UploadAndAnalyzeImage(c, file, is_image)
    \/ \E u \in Users : GenerateCompletePlan(u)
    \/ \E w \in Workers : redis_url /\ WorkerStep(w)

SpecApi == InitApi /\ [][NextApi]_vars

(***************************************************************************)
(* One run of process_image, stage by stage                                *)
(* (services/vision_pipeline.py).                                          *)
(***************************************************************************)
ServiceIdle ==
    /\ input_queue = <<>>
    /\ output_queue = <<>>
    /\ error_queue = <<>>
    /\ keys = [u \in Users |-> <<>>]
    /\ wpc = [w \in Workers |-> "brpop"]
    /\ wtask = [w \in Workers |-> <<>>]
    /\ cpc = [c \in Clients |-> "idle"]
    /\ ctask = [c \in Clients |-> <<>>]
    /\ cheld = [c \in Clients |-> <<>>]
    /\ cret = [c \in Clients |-> <<>>]
    /\ elapsed = [c \in Clients |-> 0]
    /\ nenq = 0
    /\ deq_log = <<>>
    /\ pub_log = {}
    /\ channel_log = [u \in Users |-> {}]
    /\ redis_url = TRUE
    /\ resp = [c \in Clients |-> <<>>]
    /\ direct = [c \in Clients |-> <<>>]
    /\ vision_metrics = [u \in Users |-> <<>>]
    /\ vision_analyses = [u \in Users |-> <<>>]
    /\ plans = {}

Stages == {"stage1", "stage2", "stage3", "stage4", "stage5", "stage6"}

\* Quality scores on both sides of the gate, in thousandths.
PipeQualities == {MinQualityScore - 1, MinQualityScore, MinQualityScore + 1}

PipeImages ==
    {Image(TRUE, readable, raises, quality, pose_found,
           Pose(100, 90, 400), 10) :
        readable \in BOOLEAN, raises \in Stages \cup {None},
        quality \in PipeQualities, pose_found \in BOOLEAN}

AtOrBelowQualityGate(quality_score) == quality_score <= MinQualityScore

\* `quality_score < self.min_quality_score`
BelowQualityGate(quality_score) == quality_score < MinQualityScore

\* What becomes of an exception raised in a stage: stage 2 and stage 3 have
\* handlers of their own, every other stage leaves it to process_image.
AlwaysProcessingFailed(stage) == "processing_failed"

ExceptionOutcome(stage) ==
    IF stage = "stage2" THEN "continue"
    ELSE IF stage = "stage3" THEN "pose_detection_failed"
    ELSE "processing_failed"

CaughtIn(stage) ==
    IF stage \in {"stage2", "stage3"} THEN stage ELSE "process_image"

\* The stage raises on this call.
Raises(stage) ==
    \/ pin.img.raises = stage
    \/ stage = "stage1" /\ ~pin.img.readable

\* The run ends with this response.
Return(response) ==
    /\ pres' = <<response>>
    /\ ppc' = "done"

\* The run of `stage` ends in an exception.
Raise(stage) ==
    /\ pcaught' = CaughtIn(stage)
    /\ CASE ExceptionOutcome(stage) = "continue" ->
              /\ ppc' = "stage3"
              /\ UNCHANGED pres
         [] ExceptionOutcome(stage) = "pose_detection_failed" ->
              Return(error_response("pose_detection_failed", pin.img.quality))
         [] OTHER ->
              Return(error_response("processing_failed", ErrorQuality))

Stage1QualityGate ==
    /\ ppc = "stage1"
    /\ pran' = pran \cup {"stage1"}
    /\ IF Raises("stage1") THEN Raise("stage1")
       ELSE /\ IF BelowQualityGate(pin.img.quality)
               THEN Return(error_response("low_quality", pin.img.quality))
               ELSE /\ ppc' = "stage2"
                    /\ UNCHANGED pres
            /\ UNCHANGED pcaught
    /\ UNCHANGED <<pin, input_queue, output_queue, error_queue, keys, wpc,
                   wtask, cpc, ctask, cheld, cret, elapsed, nenq, deq_log,
                   pub_log, channel_log, apivars, planvars,
                   svcvars>>

Stage2Segmentation ==
    /\ ppc = "stage2"
    /\ pran' = pran \cup {"stage2"}
    /\ IF Raises("stage2") THEN Raise("stage2")
       ELSE /\ ppc' = "stage3"
            /\ UNCHANGED <<pres, pcaught>>
    /\ UNCHANGED <<pin, input_queue, output_queue, error_queue, keys, wpc,
                   wtask, cpc, ctask, cheld, cret, elapsed, nenq, deq_log,
                   pub_log, channel_log, apivars, planvars,
                   svcvars>>

Stage3PoseDetection ==
    /\ ppc = "stage3"
    /\ pran' = pran \cup {"stage3"}
    /\ IF Raises("stage3") THEN Raise("stage3")
       ELSE /\ IF ~pin.img.pose_found
               THEN Return(error_response("pose_detection_failed",
                                          pin.img.quality))
               ELSE /\ ppc' = "stage4"
                    /\ UNCHANGED pres
            /\ UNCHANGED pcaught
    /\ UNCHANGED <<pin, input_queue, output_queue, error_queue, keys, wpc,
                   wtask, cpc, ctask, cheld, cret, elapsed, nenq, deq_log,
                   pub_log, channel_log, apivars, planvars,
                   svcvars>>

Stage4Anthropometrics ==
    /\ ppc = "stage4"
    /\ pran' = pran \cup {"stage4"}
    /\ IF Raises("stage4") THEN Raise("stage4")
       ELSE /\ ppc' = "stage5"
            /\ UNCHANGED <<pres, pcaught>>
    /\ UNCHANGED <<pin, input_queue, output_queue, error_queue, keys, wpc,
                   wtask, cpc, ctask, cheld, cret, elapsed, nenq, deq_log,
                   pub_log, channel_log, apivars, planvars,
                   svcvars>>

Stage5BodyComposition ==
    /\ ppc = "stage5"
    /\ pran' = pran \cup {"stage5"}
    /\ IF Raises("stage5") THEN Raise("stage5")
       ELSE /\ ppc' = "stage6"
            /\ UNCHANGED <<pres, pcaught>>
    /\ UNCHANGED <<pin, input_queue, output_queue, error_queue, keys, wpc,
                   wtask, cpc, ctask, cheld, cret, elapsed, nenq, deq_log,
                   pub_log, channel_log, apivars, planvars,
                   svcvars>>

Stage6OutputJson ==
    /\ ppc = "stage6"
    /\ pran' = pran \cup {"stage6"}
    /\ IF Raises("stage6") THEN Raise("stage6")
       ELSE /\ LET anthro_data ==
                       stage4_anthropometrics(pin.img.landmarks,
                                              pin.user_height_cm)
                   bc == stage5_body_composition(pin.img.edge_pct, anthro_data,
                                                 pin.user_height_cm,
                                                 pin.user_sex)
               IN  Return(stage6_output_json(anthro_data, bc[1],
                                             pin.img.quality, bc[2]))
            /\ UNCHANGED pcaught
    /\ UNCHANGED <<pin, input_queue, output_queue, error_queue, keys, wpc,
                   wtask, cpc, ctask, cheld, cret, elapsed, nenq, deq_log,
                   pub_log, channel_log, apivars, planvars,
                   svcvars>>

InitPipe ==
    /\ ServiceIdle
    /\ pin \in [img : PipeImages, user_height_cm : Heights, user_sex : Sexes]
    /\ ppc = "stage1"
    /\ pran = {}
    /\ pcaught = None
    /\ pres = <<>>
    /\ PlanIdle
    /\ ServiceTablesEmpty

NextPipe ==
    \/ Stage1QualityGate
    \/ Stage2Segmentation
    \/ Stage3PoseDetection
    \/ Stage4Anthropometrics
    \/ Stage5BodyComposition
    \/ Stage6OutputJson

SpecPipe == InitPipe /\ [][NextPipe]_vars

(***************************************************************************)
(* One call of _stage5_body_composition (services/vision_pipeline.py) on   *)
(* measurements of its caller's choice, as the unit tests call it.  The    *)
(* call is in pin, and pres receives the three estimates the function      *)
(* computes with what it returns.                                          *)
(***************************************************************************)
\* The measurements of the calls, in tenths of a centimetre; a hip of 0 is a
\* missing hip measurement.
BodyAnthros ==
    [waist_cm : {380, 850, 900}, neck_cm : {380, 900}, hip_cm : {0, 950, 1000}]

\* Share of edge pixels of the segmented image, in percent.
BodyEdges == {10, 20, 50}

BodyCalls ==
    [anthro_data : BodyAnthros, edge_pct : BodyEdges,
     user_height_cm : Heights, user_sex : Sexes]

Stage5BodyCompositionCall ==
    /\ ppc = "call"
    /\ LET bc == stage5_body_composition(pin.edge_pct, pin.anthro_data,
                                         pin.user_height_cm, pin.user_sex)
       IN  pres' = <<[navy_bf |->
                         calculate_navy_body_fat(pin.anthro_data.waist_cm,
                             pin.anthro_data.neck_cm, pin.user_height_cm,
                             pin.user_sex, pin.anthro_data.hip_cm),
                      visual_bf |->
                         estimate_visual_body_fat(pin.edge_pct, pin.user_sex),
                      ratio_bf |->
                         estimate_ratio_body_fat(pin.anthro_data,
                                                 pin.user_sex),
                      bf_estimate |-> bc[1],
                      confidence |-> bc[2]]>>
    /\ ppc' = "done"
    /\ UNCHANGED <<pin, pran, pcaught, input_queue, output_queue, error_queue,
                   keys, wpc, wtask, cpc, ctask, cheld, cret, elapsed, nenq,
                   deq_log, pub_log, channel_log, apivars, planvars,
                   svcvars>>

InitBody ==
    /\ ServiceIdle
    /\ pin \in BodyCalls
    /\ ppc = "call"
    /\ pran = {}
    /\ pcaught = None
    /\ pres = <<>>
    /\ PlanIdle
    /\ ServiceTablesEmpty

NextBody == Stage5BodyCompositionCall

SpecBody == InitBody /\ [][NextBody]_vars

(***************************************************************************)
(* Plan synthesis (services/llm_plan_generator.py) behind the handler      *)
(* generate_complete_plan (api/specification_endpoints.py).  Heights in    *)
(* cm, weights in kg, ages in years, body fat in tenths of a percent,      *)
(* energy in kJ, macros in g, image quality in thousandths.                *)
(***************************************************************************)
\* floor(a * b / c) for a >= 0, b >= 0, c > 0, in steps that stay small.
MulDiv(a, b, c) == (a \div c) * b + ((a % c) * b) \div c

SexValues == {"male", "female", "non-binary"}
PrimaryGoals == {"muscle-gain", "fat-loss", "recomp", "maintenance"}
ActivityLevels == {"sedentary", "light", "moderate", "high"}

\* StaticProfile.validate_dob
ValidStaticProfile(profile) == profile.age >= 13 /\ profile.age <= 100

\* WizardInputs: Field(ge=100, le=230), Field(ge=30, le=300)
ValidWizardInputs(wizard) ==
    /\ wizard.heightCm >= 100 /\ wizard.heightCm <= 230
    /\ wizard.weightKg >= 30 /\ wizard.weightKg <= 300

\* VisionAnalysisResult: Field(ge=0.0, le=1.0) and validate_quality,
\* Field(ge=3.0, le=60.0)
ValidVisionAnalysis(vision) ==
    /\ vision.quality >= 700 /\ vision.quality <= 1000
    /\ vision.bfEstimate >= 30 /\ vision.bfEstimate <= 600

\* Injury texts of the wizard, with what str.lower() makes of them and the
\* words "knee", "shoulder", "back" found in that.
InjuryTexts == {"Left knee pain", "shoulder", "lower back", "wrist"}

lower_injury ==
    [t \in InjuryTexts |->
        CASE t = "Left knee pain" -> "left knee pain"
          [] OTHER -> t]

InLower(word, injury) ==
    \/ word = "knee" /\ lower_injury[injury] = "left knee pain"
    \/ word = "shoulder" /\ lower_injury[injury] = "shoulder"
    \/ word = "back" /\ lower_injury[injury] = "lower back"

Range(seq) == {seq[i] : i \in DOMAIN seq}

\* _validate_safety
validate_safety(data_contract) ==
    LET profile == data_contract.profile
        wizard  == data_contract.wizard
        vision  == data_contract.vision
        warnings ==
            (IF ~(100 <= wizard.heightCm /\ wizard.heightCm <= 230)
             THEN {"height"} ELSE {})
            \cup (IF ~(30 <= wizard.weightKg /\ wizard.weightKg <= 300)
                  THEN {"weight"} ELSE {})
            \cup (IF ~(30 <= vision.bfEstimate /\ vision.bfEstimate <= 600)
                  THEN {"body fat"} ELSE {})
        blocked(word, names) ==
            IF \E injury \in Range(wizard.injuries) : InLower(word, injury)
            THEN names ELSE {}
    IN  IF profile.age < 13
        THEN [is_safe |-> FALSE, warnings |-> {"under 13"},
              blocked_exercises |-> {}]
        ELSE IF vision.quality < 700
        THEN [is_safe |-> FALSE, warnings |-> {"image quality"},
              blocked_exercises |-> {}]
        ELSE [is_safe |-> warnings = {},
              warnings |-> warnings,
              blocked_exercises |->
                  blocked("knee", {"lunges", "jump squats", "plyometrics"})
                  \cup blocked("shoulder", {"overhead press", "pull-ups"})
                  \cup blocked("back", {"deadlifts", "bent-over rows"})]

\* Mifflin-St Jeor, times 4: 10 w + 6.25 h - 5 age + 5, or - 161.
bmr4(profile, wizard) ==
    40 * wizard.weightKg + 25 * wizard.heightCm - 20 * profile.age
    + (IF profile.sex = "male" THEN 20 ELSE -644)

\* 1.2, 1.375, 1.55, 1.725 as <<numerator, denominator>>
activity_multipliers ==
    [a \in ActivityLevels |->
        CASE a = "sedentary" -> <<6, 5>>
          [] a = "light" -> <<11, 8>>
          [] a = "moderate" -> <<31, 20>>
          [] a = "high" -> <<69, 40>>]

\* 0.85, 1.10, 1.00, 1.00 as <<numerator, denominator>>
calorie_adjustments ==
    [g \in PrimaryGoals |->
        CASE g = "fat-loss" -> <<17, 20>>
          [] g = "muscle-gain" -> <<11, 10>>
          [] OTHER -> <<1, 1>>]

\* int(bmr * multiplier * adjustment * 4.184), 4.184 being 523/125
target_kj(profile, wizard) ==
    LET m == activity_multipliers[profile.activityLvl]
        g == calorie_adjustments[profile.primaryGoal]
    IN  MulDiv(bmr4(profile, wizard) * m[1] * g[1], 523,
               4 * m[2] * g[2] * 125)

\* The shares of protein, carbohydrate and fat, in percent.
macro_pct(vision) ==
    IF vision.bfEstimate > 250
    THEN [protein |-> 35, carb |-> 40, fat |-> 25]
    ELSE IF vision.bfEstimate < 120
    THEN [protein |-> 25, carb |-> 50, fat |-> 25]
    ELSE [protein |-> 30, carb |-> 45, fat |-> 25]

\* _calculate_nutrition_targets: int((kJ * pct / 4.184) / 4), and / 9 for fat
calculate_nutrition_targets(profile, wizard, vision) ==
    LET kj  == target_kj(profile, wizard)
        pct == macro_pct(vision)
    IN  [week |-> "1-4",
         kJ_per_day |-> kj,
         protein_g |-> (kj * pct.protein * 5) \div 8368,
         carbs_g |-> (kj * pct.carb * 5) \div 8368,
         fat_g |-> (kj * pct.fat * 5) \div 18828]

TrainingTable(day, exercise, sets, reps, rest) ==
    [day |-> day, exercise |-> exercise, sets |-> sets, reps |-> reps,
     rest |-> rest]

\* _get_corrective_exercises, for one alert
corrective_for(alert) ==
    CASE alert = "rounded_shoulders" ->
           <<TrainingTable("Daily", "Wall Angels", 3, "15", "30 s"),
             TrainingTable("Daily", "Doorway Chest Stretch", 3, "30 s",
                           "30 s"),
             TrainingTable("Daily", "Face Pulls", 3, "15", "60 s")>>
      [] alert = "anterior_pelvic_tilt" ->
           <<TrainingTable("Daily", "Hip Flexor Stretch", 2, "60 s", "30 s"),
             TrainingTable("Daily", "Dead Bug", 2, "8 each side", "45 s"),
             TrainingTable("Daily", "Glute Bridge", 3, "12-15", "60 s")>>
      [] alert = "forward_head" ->
           <<TrainingTable("Daily", "Chin Tucks", 3, "10", "30 s"),
             TrainingTable("Daily", "Upper Trap Stretch", 2, "30 s each",
                           "30 s")>>
      [] OTHER -> <<>>

\* _get_corrective_exercises: the three alerts it tests, in its order
get_corrective_exercises(pose_alerts) ==
    LET for(alert) == IF alert \in Range(pose_alerts)
                      THEN corrective_for(alert) ELSE <<>>
    IN  for("rounded_shoulders") \o for("anterior_pelvic_tilt")
        \o for("forward_head")

FourDaySplit ==
    <<TrainingTable("Day 1", "Goblet Squat", 4, "8-10", "90 s"),
      TrainingTable("Day 1", "Push-ups", 3, "8-12", "60 s"),
      TrainingTable("Day 1", "Bent-over Row", 3, "8-12", "90 s"),
      TrainingTable("Day 2", "Romanian Deadlift", 4, "6-8", "120 s"),
      TrainingTable("Day 2", "Overhead Press", 3, "8-10", "90 s"),
      TrainingTable("Day 2", "Plank", 3, "30-60 s", "60 s"),
      TrainingTable("Day 3", "Bulgarian Split Squat", 3, "8-10", "90 s"),
      TrainingTable("Day 3", "Pull-ups/Lat Pulldown", 3, "6-10", "90 s"),
      TrainingTable("Day 3", "Dips/Tricep Press", 3, "8-12", "60 s"),
      TrainingTable("Day 4", "Front Squat", 4, "6-8", "120 s"),
      TrainingTable("Day 4", "Incline Push-ups", 3, "10-15", "60 s"),
      TrainingTable("Day 4", "Face Pulls", 3, "12-15", "45 s")>>

ThreeDayFullBody ==
    <<TrainingTable("Day 1", "Squat", 3, "8-12", "90 s"),
      TrainingTable("Day 1", "Push-ups", 3, "8-15", "60 s"),
      TrainingTable("Day 1", "Bent-over Row", 3, "8-12", "90 s"),
      TrainingTable("Day 2", "Deadlift", 3, "6-8", "120 s"),
      TrainingTable("Day 2", "Overhead Press", 3, "8-10", "90 s"),
      TrainingTable("Day 2", "Plank", 2, "30-45 s", "60 s"),
      TrainingTable("Day 3", "Lunge", 3, "8-10", "60 s"),
      TrainingTable("Day 3", "Pull-ups", 3, "6-10", "90 s"),
      TrainingTable("Day 3", "Dips", 3, "8-12", "60 s")>>

\* `word in exercise["exercise"]` for the words the generator looks for
InName(word, name) ==
    \/ word = "Deadlift"
         /\ name \in {"Deadlift", "Romanian Deadlift",
                      "Romanian Deadlift (Dumbbells)"}
    \/ word = "Squat"
         /\ name \in {"Squat", "Goblet Squat", "Bulgarian Split Squat",
                      "Front Squat"}
    \/ word = "Goblet" /\ name = "Goblet Squat"
    \/ word = "Lunge" /\ name = "Lunge"

\* `if "no barbell" in wizard.equipLimits`: the substitutions of one row
apply_equipment_limits(row) ==
    IF InName("Deadlift", row.exercise)
    THEN [row EXCEPT !.exercise = "Romanian Deadlift (Dumbbells)"]
    ELSE IF InName("Squat", row.exercise) /\ ~InName("Goblet", row.exercise)
    THEN [row EXCEPT !.exercise = "Goblet Squat"]
    ELSE row

\* `if "knee" in injury.lower()`: the modification of one row
apply_knee_modification(row) ==
    IF InName("Lunge", row.exercise)
    THEN [row EXCEPT !.exercise = "Leg Press", !.reps = "12-15"]
    ELSE row

\* _generate_training_plan
generate_training_plan(profile, wizard, vision) ==
    LET main_exercises ==
            IF profile.trainDays >= 4 THEN FourDaySplit ELSE ThreeDayFullBody
        limited ==
            IF "no barbell" \in Range(wizard.equipLimits)
            THEN [i \in DOMAIN main_exercises |->
                     apply_equipment_limits(main_exercises[i])]
            ELSE main_exercises
        modified ==
            IF \E injury \in Range(wizard.injuries) : InLower("knee", injury)
            THEN [i \in DOMAIN limited |-> apply_knee_modification(limited[i])]
            ELSE limited
    IN  get_corrective_exercises(vision.poseAlerts) \o modified

\* _generate_mobility_drills: the issues it names, in its order
generate_mobility_drills(pose_alerts) ==
    LET for(alert) == IF alert \in Range(pose_alerts) THEN <<alert>> ELSE <<>>
        drills == for("rounded_shoulders") \o for("anterior_pelvic_tilt")
                  \o for("forward_head")
    IN  IF drills = <<>> THEN <<"general mobility routine">> ELSE drills

\* _generate_rationale: what each bullet is about and the inputs it quotes
generate_rationale(profile, wizard, vision) ==
    <<[about |-> "goal", quotes |-> <<profile.primaryGoal>>]>>
    \o (IF vision.poseAlerts # <<>>
        THEN <<[about |-> "posture", quotes |-> vision.poseAlerts]>>
        ELSE <<>>)
    \o (IF wizard.equipLimits # <<>>
        THEN <<[about |-> "equipment", quotes |-> wizard.equipLimits]>>
        ELSE <<>>)
    \o <<[about |-> "body fat", quotes |-> <<vision.bfEstimate>>],
         [about |-> "training days", quotes |-> <<profile.trainDays>>]>>

\* generate_plan: raises when the contract is not safe, and else returns
\* the formatted response; the blocked exercises of the safety check are
\* read nowhere.
generate_plan(data_contract) ==
    LET safety_check == validate_safety(data_contract)
        profile == data_contract.profile
        wizard  == data_contract.wizard
        vision  == data_contract.vision
    IN  IF ~safety_check.is_safe
        THEN [raised |-> TRUE]
        ELSE [raised |-> FALSE,
              training_days_per_week |-> profile.trainDays,
              weekly_nutrition_targets |->
                  <<calculate_nutrition_targets(profile, wizard, vision)>>,
              training_mesocycle |->
                  generate_training_plan(profile, wizard, vision),
              mobility_posture_drills |->
                  generate_mobility_drills(vision.poseAlerts),
              rationale |-> generate_rationale(profile, wizard, vision)]

\* generate_kid_safe_plan, for an age below 13
generate_kid_safe_plan(age, activity_level) ==
    [type |-> "play_based_activities",
     age_group |-> age,
     activities |-> <<"Tag Games", "Animal Movements", "Obstacle Courses",
                      "Dance/Movement", "Ball Games">>,
     nutrition |-> "no calorie counting",
     disclaimer |-> "Consult pediatrician"]

\* The documents a user can have stored.
Profiles ==
    [age : {12, 13, 60}, sex : SexValues, primaryGoal : PrimaryGoals,
     trainDays : {3, 4}, activityLvl : ActivityLevels]

Wizards ==
    [heightCm : {150, 180}, weightKg : {45, 80, 200},
     injuries : {<<>>, <<"Left knee pain">>, <<"shoulder">>,
                 <<"wrist", "lower back">>},
     equipLimits : {<<>>, <<"no barbell">>}]

Visions ==
    [quality : {850}, bfEstimate : {100, 249, 250, 300},
     poseAlerts : {<<>>, <<"rounded_shoulders">>,
                   <<"forward_head", "asymmetric_shoulders">>,
                   <<"anterior_pelvic_tilt", "knee_valgus">>}]

SomeProfile == [age |-> 60, sex |-> "female", primaryGoal |-> "recomp",
                trainDays |-> 3, activityLvl |-> "light"]

SomeWizard == [heightCm |-> 180, weightKg |-> 80, injuries |-> <<>>,
               equipLimits |-> <<>>]

SomeVision == [quality |-> 850, bfEstimate |-> 200, poseAlerts |-> <<>>]

Contracts ==
    {[profile |-> <<p>>, wizard |-> <<w>>, vision |-> <<v>>] :
        p \in Profiles, w \in Wizards, v \in Visions}
    \cup {[profile |-> <<>>, wizard |-> <<SomeWizard>>,
           vision |-> <<SomeVision>>],
          [profile |-> <<SomeProfile>>, wizard |-> <<>>,
           vision |-> <<SomeVision>>],
          [profile |-> <<SomeProfile>>, wizard |-> <<SomeWizard>>,
           vision |-> <<>>],
          [profile |-> <<SomeProfile>>, wizard |-> <<SomeWizard>>,
           vision |-> <<[SomeVision EXCEPT !.quality = 650]>>]}

\* generate_complete_plan: the except clauses turn every exception but an
\* HTTPException into status 500.  Setting plan_id on the formatted plan,
\* which has no such field, raises after the plan is stored.
GeneratePlanRequest ==
    /\ contract # <<>>
    /\ plan_resp = <<>>
    /\ IF contract.profile = <<>> \/ contract.wizard = <<>>
          \/ contract.vision = <<>>
       THEN /\ plan_resp' = <<HTTPException(400, "required")>>
            /\ UNCHANGED <<generated, generated_plans>>
       ELSE LET profile == contract.profile[1]
                wizard  == contract.wizard[1]
                vision  == contract.vision[1]
                data_contract == [profile |-> profile, wizard |-> wizard,
                                  vision |-> vision]
            IN  IF ~ValidStaticProfile(profile) \/ ~ValidWizardInputs(wizard)
                   \/ ~ValidVisionAnalysis(vision)
                THEN /\ plan_resp' =
                            <<HTTPException(500, "Plan generation failed")>>
                     /\ UNCHANGED <<generated, generated_plans>>
                ELSE IF profile.age < 13
                THEN /\ plan_resp' =
                            <<Success([type |-> "kid_safe_plan",
                                       plan |-> generate_kid_safe_plan(
                                           profile.age, profile.activityLvl)])>>
                     /\ UNCHANGED <<generated, generated_plans>>
                ELSE IF generate_plan(data_contract).raised
                THEN /\ plan_resp' =
                            <<HTTPException(500, "Plan generation failed")>>
                     /\ UNCHANGED <<generated, generated_plans>>
                ELSE /\ generated' = <<generate_plan(data_contract)>>
                     /\ generated_plans' =
                            Append(generated_plans,
                                   [plan |-> generate_plan(data_contract),
                                    data_contract |-> data_contract])
                     /\ plan_resp' =
                            <<HTTPException(500, "Plan generation failed")>>
    /\ UNCHANGED <<contract, input_queue, output_queue, error_queue, keys,
                   wpc, wtask, cpc, ctask, cheld, cret, elapsed, nenq,
                   deq_log, pub_log, channel_log, apivars, pipevars,
                   svcvars>>

InitPlan ==
    /\ ServiceIdle
    /\ PipeIdle
    /\ contract \in Contracts
    /\ generated = <<>>
    /\ generated_plans = <<>>
    /\ plan_resp = <<>>
    /\ ServiceTablesEmpty

NextPlan == GeneratePlanRequest

SpecPlan == InitPlan /\ [][NextPlan]_vars

(***************************************************************************)
(* One call of a validation function on arguments of its caller's choice:  *)
(* GymAICoachLLM._validate_safety and validate_ranges                      *)
(* (services/llm_plan_generator.py), Validators.validate_profile_data      *)
(* (utils/validators.py).  The call is in pin, its result in pres.         *)
(***************************************************************************)
\* validate_ranges: the fields of the errors, in the order of the list
validate_ranges(height_cm, weight_kg, bf_pct) ==
    (IF ~(100 <= height_cm /\ height_cm <= 230)
     THEN <<"height_cm">> ELSE <<>>)
    \o (IF ~(30 <= weight_kg /\ weight_kg <= 300)
        THEN <<"weight_kg">> ELSE <<>>)
    \o (IF ~(30 <= bf_pct /\ bf_pct <= 600)
        THEN <<"body_fat_pct">> ELSE <<>>)

\* Validators.validate_profile_data: what the errors are about, in the order
\* of the list.  The name is the sequence of its characters, the date of
\* birth is given by the age it makes.
validate_profile_data(profile_data) ==
    (IF profile_data.full_name = <<>>
     THEN <<"full_name required">> ELSE <<>>)
    \o (IF profile_data.full_name # <<>>
           /\ (Len(profile_data.full_name) < 2
               \/ Len(profile_data.full_name) > 100)
        THEN <<"full_name length">> ELSE <<>>)
    \o (IF profile_data.age < 13 THEN <<"age below 13">>
        ELSE IF profile_data.age > 100 THEN <<"age above 100">> ELSE <<>>)
    \o (IF profile_data.sex \notin {"male", "female"}
        THEN <<"sex">> ELSE <<>>)
    \o (IF profile_data.primary_fitness_goal \notin
              {"lose_fat", "gain_muscle", "strength", "recomposition",
               "maintenance"}
        THEN <<"primary_fitness_goal">> ELSE <<>>)
    \o (IF profile_data.preferred_training_days < 3
           \/ profile_data.preferred_training_days > 6
        THEN <<"preferred_training_days">> ELSE <<>>)

\* The contracts _validate_safety is called with: a field of a pydantic model
\* can be assigned any value after the model is built.
SafetyContracts ==
    [profile : [age : {12, 30}],
     wizard : [heightCm : {90, 180}, weightKg : {20, 80},
               injuries : {<<>>, <<"shoulder">>}],
     vision : [quality : {650, 850}, bfEstimate : {20, 200}]]

ProfileData ==
    {[full_name |-> name, age |-> age, sex |-> sex,
      primary_fitness_goal |-> goal, preferred_training_days |-> days] :
        name \in {<<>>, <<"A">>, <<"A", "l">>}, age \in {12, 30, 101},
        sex \in {"male", "other"}, goal \in {"lose_fat", "bulk"},
        days \in {2, 4}}

ValidationCalls ==
    {[fn |-> "validate_safety", data_contract |-> c] : c \in SafetyContracts}
    \cup {[fn |-> "validate_ranges", height_cm |-> h, weight_kg |-> w,
           bf_pct |-> bf] :
             h \in {90, 180, 240}, w \in {20, 80}, bf \in {20, 200, 610}}
    \cup {[fn |-> "validate_profile_data", profile_data |-> p] :
             p \in ProfileData}

ValidationReturn(result) ==
    /\ pres' = <<result>>
    /\ ppc' = "done"
    /\ UNCHANGED <<pin, pran, pcaught, input_queue, output_queue, error_queue,
                   keys, wpc, wtask, cpc, ctask, cheld, cret, elapsed, nenq,
                   deq_log, pub_log, channel_log, apivars, planvars,
                   svcvars>>

ValidateSafetyCall ==
    /\ ppc = "call"
    /\ pin.fn = "validate_safety"
    /\ ValidationReturn(validate_safety(pin.data_contract))

ValidateRangesCall ==
    /\ ppc = "call"
    /\ pin.fn = "validate_ranges"
    /\ ValidationReturn(validate_ranges(pin.height_cm, pin.weight_kg,
                                        pin.bf_pct))

ValidateProfileDataCall ==
    /\ ppc = "call"
    /\ pin.fn = "validate_profile_data"
    /\ ValidationReturn(validate_profile_data(pin.profile_data))

InitValidation ==
    /\ ServiceIdle
    /\ pin \in ValidationCalls
    /\ ppc = "call"
    /\ pran = {}
    /\ pcaught = None
    /\ pres = <<>>
    /\ PlanIdle
    /\ ServiceTablesEmpty

NextValidation ==
    \/ ValidateSafetyCall
    \/ ValidateRangesCall
    \/ ValidateProfileDataCall

SpecValidation == InitValidation /\ [][NextValidation]_vars

(***************************************************************************)
(* One week of workouts (Enhanced4WeekPlanGenerator, which                 *)
(* services/user_service.py holds), followed statement by statement.  An   *)
(* exercise is its name.                                                   *)
(***************************************************************************)
\* EXERCISE_DATABASE (utils/constants.py): per muscle group the exercises
\* in the order of the table, each with its difficulty.
EXERCISE_DATABASE ==
    [chest |->
        <<[name |-> "Push-ups", difficulty |-> "beginner"],
          [name |-> "Dumbbell Bench Press", difficulty |-> "beginner"],
          [name |-> "Incline Dumbbell Press", difficulty |-> "intermediate"],
          [name |-> "Dips", difficulty |-> "intermediate"],
          [name |-> "Chest Flyes", difficulty |-> "intermediate"]>>,
     back |->
        <<[name |-> "Pull-ups", difficulty |-> "intermediate"],
          [name |-> "Bent-over Rows", difficulty |-> "intermediate"],
          [name |-> "Lat Pulldown", difficulty |-> "beginner"],
          [name |-> "Deadlifts", difficulty |-> "advanced"],
          [name |-> "Single-arm Dumbbell Row", difficulty |-> "beginner"]>>,
     shoulders |->
        <<[name |-> "Overhead Press", difficulty |-> "beginner"],
          [name |-> "Lateral Raises", difficulty |-> "beginner"],
          [name |-> "Face Pulls", difficulty |-> "beginner"],
          [name |-> "Pike Push-ups", difficulty |-> "intermediate"],
          [name |-> "Arnold Press", difficulty |-> "intermediate"]>>,
     triceps |->
        <<[name |-> "Tricep Dips", difficulty |-> "beginner"],
          [name |-> "Close-grip Push-ups", difficulty |-> "beginner"],
          [name |-> "Overhead Tricep Extension", difficulty |-> "beginner"],
          [name |-> "Tricep Pushdowns", difficulty |-> "beginner"]>>,
     biceps |->
        <<[name |-> "Bicep Curls", difficulty |-> "beginner"],
          [name |-> "Hammer Curls", difficulty |-> "beginner"],
          [name |-> "Chin-ups", difficulty |-> "intermediate"],
          [name |-> "21s", difficulty |-> "intermediate"]>>,
     legs |->
        <<[name |-> "Bodyweight Squats", difficulty |-> "beginner"],
          [name |-> "Goblet Squats", difficulty |-> "beginner"],
          [name |-> "Lunges", difficulty |-> "beginner"],
          [name |-> "Romanian Deadlifts", difficulty |-> "intermediate"],
          [name |-> "Bulgarian Split Squats", difficulty |-> "intermediate"],
          [name |-> "Calf Raises", difficulty |-> "beginner"],
          [name |-> "Wall Sits", difficulty |-> "beginner"]>>,
     core |->
        <<[name |-> "Plank", difficulty |-> "beginner"],
          [name |-> "Dead Bug", difficulty |-> "beginner"],
          [name |-> "Mountain Climbers", difficulty |-> "intermediate"],
          [name |-> "Russian Twists", difficulty |-> "beginner"],
          [name |-> "Bicycle Crunches", difficulty |-> "beginner"],
          [name |-> "Side Plank", difficulty |-> "intermediate"]>>]

\* self.exercise_db.get(muscle_group, [])
exercise_db_get(muscle_group) ==
    IF muscle_group \in DOMAIN EXERCISE_DATABASE
    THEN EXERCISE_DATABASE[muscle_group]
    ELSE <<>>

\* seq[:n]
Prefix(seq, n) == SubSeq(seq, 1, Min(n, Len(seq)))

\* _get_training_split: the muscle groups of "Day 1", "Day 2", ... in order
training_split(experience, days) ==
    IF experience = "beginner" /\ days = 3
    THEN <<<<"chest", "shoulders", "triceps">>, <<"back", "biceps">>,
           <<"legs", "core">>>>
    ELSE IF experience = "beginner" /\ days = 4
    THEN <<<<"chest", "triceps">>, <<"back", "biceps">>, <<"legs">>,
           <<"shoulders", "core">>>>
    ELSE IF experience = "intermediate" /\ days = 4
    THEN <<<<"chest", "shoulders">>, <<"back", "biceps">>, <<"legs">>,
           <<"arms", "core">>>>
    ELSE IF experience = "intermediate" /\ days = 5
    THEN <<<<"chest">>, <<"back">>, <<"legs">>, <<"shoulders">>,
           <<"arms", "core">>>>
    ELSE IF experience \notin {"beginner", "intermediate"}
    THEN <<<<"chest", "triceps">>, <<"back", "biceps">>, <<"legs">>,
           <<"shoulders">>, <<"arms">>, <<"legs", "core">>>>
    ELSE <<<<"chest", "shoulders">>, <<"back", "biceps">>, <<"legs">>,
           <<"arms", "core">>>>

\* _is_suitable_for_experience
is_suitable_for_experience(exercise_data, experience) ==
    IF experience = "beginner"
    THEN exercise_data.difficulty \in {"beginner", "intermediate"}
    ELSE IF experience = "intermediate"
    THEN exercise_data.difficulty \in {"beginner", "intermediate", "advanced"}
    ELSE TRUE

\* The names of the entries of a table that suit the experience, in order.
RECURSIVE suitable_exercises(_, _)
suitable_exercises(available_exercises, experience) ==
    IF available_exercises = <<>> THEN <<>>
    ELSE LET ex == Head(available_exercises)
             rest == suitable_exercises(Tail(available_exercises),
                                        experience)
         IN  IF is_suitable_for_experience(ex, experience)
             THEN <<ex.name>> \o rest
             ELSE rest

\* _select_exercises: the first two suitable exercises of each muscle group
RECURSIVE select_exercises(_, _)
select_exercises(muscle_groups, experience) ==
    IF muscle_groups = <<>> THEN <<>>
    ELSE Prefix(suitable_exercises(exercise_db_get(Head(muscle_groups)),
                                   experience), 2)
         \o select_exercises(Tail(muscle_groups), experience)

\* "core" not in muscle_groups
HasCore(muscle_groups) ==
    \E i \in 1..Len(muscle_groups) : muscle_groups[i] = "core"

\* _get_additional_exercises
get_additional_exercises(muscle_groups, experience) ==
    IF ~HasCore(muscle_groups)
    THEN LET core_exercises == Prefix(exercise_db_get("core"), 2)
         IN  [i \in 1..Len(core_exercises) |-> core_exercises[i].name]
    ELSE <<>>

\* The calls _generate_4_week_workouts makes for the profiles of the three
\* experience levels.
WeekCalls ==
    [gym_experience : {"beginner", "intermediate", "advanced"},
     preferred_training_days : {3, 4, 5},
     week_num : 1..4]

\* The day of the split the loop of _generate_week_workouts is at.
WeekDay == Len(pran.workouts) + 1

WeekSplit == training_split(pin.gym_experience, pin.preferred_training_days)

WeekUnchanged ==
    UNCHANGED <<pin, pcaught, input_queue, output_queue, error_queue, keys,
                wpc, wtask, cpc, ctask, cheld, cret, elapsed, nenq, deq_log,
                pub_log, channel_log, apivars, planvars, svcvars>>

\* _generate_week_workouts, the first statement of the body of the for
\* loop: exercises = self._select_exercises(...)
WeekSelectExercises ==
    /\ ppc = "select"
    /\ pran' = [pran EXCEPT !.exercises =
                    select_exercises(WeekSplit[WeekDay], pin.gym_experience)]
    /\ ppc' = "while"
    /\ pres' = pres
    /\ WeekUnchanged

\* one iteration of `while len(exercises) < 5`
WeekTopUp ==
    /\ ppc = "while"
    /\ Len(pran.exercises) < 5
    /\ pran' = [pran EXCEPT !.exercises =
                    Prefix(pran.exercises
                           \o get_additional_exercises(WeekSplit[WeekDay],
                                                       pin.gym_experience),
                           8)]
    /\ ppc' = "while"
    /\ pres' = pres
    /\ WeekUnchanged

\* the loop left: the WorkoutDay is appended, and the next day begins or
\* the list is returned
WeekAppendWorkout ==
    /\ ppc = "while"
    /\ ~(Len(pran.exercises) < 5)
    /\ LET workout == [day_number |-> Len(pran.workouts) + 1,
                       muscle_groups |-> WeekSplit[WeekDay],
                       exercises |-> Prefix(pran.exercises, 5)]
           workouts == Append(pran.workouts, workout)
       IN  /\ pran' = [workouts |-> workouts, exercises |-> <<>>]
           /\ IF Len(workouts) < Len(WeekSplit)
              THEN ppc' = "select" /\ pres' = pres
              ELSE ppc' = "done" /\ pres' = <<workouts>>
    /\ WeekUnchanged

InitWeek ==
    /\ ServiceIdle
    /\ pin \in WeekCalls
    /\ ppc = "select"
    /\ pran = [workouts |-> <<>>, exercises |-> <<>>]
    /\ pcaught = None
    /\ pres = <<>>
    /\ PlanIdle
    /\ ServiceTablesEmpty

NextWeek ==
    \/ WeekSelectExercises
    \/ WeekTopUp
    \/ WeekAppendWorkout

SpecWeek == InitWeek /\ [][NextWeek]_vars

(***************************************************************************)
(* The plan service (services/user_service.py) over the tables of          *)
(* EnhancedGymDatabase (database/database.py).  Volume multipliers and the *)
(* calorie adjustment are in hundredths, energy in kcal.                   *)
(***************************************************************************)
\* Table user_profiles.
user_profiles ==
    [u \in Users |->
        IF u = "u1"
        THEN <<[user_id |-> u, sex |-> "male", age |-> 30,
                primary_fitness_goal |-> "lose_fat",
                preferred_training_days |-> 3,
                activity_level |-> "sedentary",
                gym_experience |-> "beginner"]>>
        ELSE <<[user_id |-> u, sex |-> "female", age |-> 40,
                primary_fitness_goal |-> "gain_muscle",
                preferred_training_days |-> 5,
                activity_level |-> "moderate",
                gym_experience |-> "intermediate"]>>]

\* The measurement data a plan is asked for with.
MeasurementData == [height_cm : {170}, weight_kg : {60, 90}]

\* calculate_bmr (Harris-Benedict), in thousandths of a kcal
calculate_bmr(weight_kg, height_cm, age, sex) ==
    IF sex = "male"
    THEN 88362 + 13397 * weight_kg + 4799 * height_cm - 5677 * age
    ELSE 447593 + 9247 * weight_kg + 3098 * height_cm - 4330 * age

\* calculate_tdee: 1.2, 1.375, 1.55, 1.725, 1.9, in units of 0.025
tdee_multiplier(activity_level) ==
    CASE activity_level = "sedentary" -> 48
      [] activity_level = "light" -> 55
      [] activity_level = "moderate" -> 62
      [] activity_level = "active" -> 69
      [] activity_level = "athlete" -> 76
      [] OTHER -> 62

\* _get_calorie_adjustment: 0.85, 1.15, 1.10, 1.0, in hundredths
get_calorie_adjustment(goal) ==
    CASE goal = "lose_fat" -> 85
      [] goal = "gain_muscle" -> 115
      [] goal = "strength" -> 110
      [] OTHER -> 100

\* _calculate_macros, shares in percent
calculate_macros(calories, goal, weight_kg) ==
    LET ratio ==
            CASE goal = "lose_fat" ->
                   [protein |-> 35, fat |-> 25, carb |-> 40]
              [] goal \in {"gain_muscle", "strength"} ->
                   [protein |-> 30, fat |-> 25, carb |-> 45]
              [] goal = "recomposition" ->
                   [protein |-> 35, fat |-> 30, carb |-> 35]
              [] OTHER ->
                   [protein |-> 25, fat |-> 30, carb |-> 45]
        protein_g == Max((16 * weight_kg) \div 10,
                         (calories * ratio.protein) \div 400)
        fat_g == (calories * ratio.fat) \div 900
    IN  [protein |-> protein_g,
         carbs |-> (calories - 4 * protein_g - 9 * fat_g) \div 4,
         fat |-> fat_g]

\* _generate_nutrition_plan: int(tdee * adjustment), raised to the minimum
\* of the sex
generate_nutrition_plan(profile, measurements) ==
    LET bmr == calculate_bmr(measurements.weight_kg, measurements.height_cm,
                             profile.age, profile.sex)
        calorie_adjustment ==
            get_calorie_adjustment(profile.primary_fitness_goal)
        target_calories ==
            Max(MulDiv(bmr * tdee_multiplier(profile.activity_level),
                       calorie_adjustment \div 5, 800000),
                IF profile.sex = "male" THEN 1500 ELSE 1200)
        macros == calculate_macros(target_calories,
                                   profile.primary_fitness_goal,
                                   measurements.weight_kg)
    IN  [calories |-> target_calories,
         protein_g |-> macros.protein,
         carbs_g |-> macros.carbs,
         fat_g |-> macros.fat,
         calorie_adjustment |-> calorie_adjustment - 100]

\* _get_training_split: the number of days of the split
training_split_days(experience, days) ==
    IF experience = "beginner" /\ days \in {3, 4} THEN days
    ELSE IF experience = "intermediate" /\ days \in {4, 5} THEN days
    ELSE IF experience \notin {"beginner", "intermediate"} THEN 6
    ELSE 4

\* _get_volume_multiplier, weeks 1 to 4
volume_multipliers == <<100, 105, 110, 80>>

\* generate_complete_plan: the plan it builds from the four weeks and the
\* nutrition plan.  Of the weeks the plan keeps their number of workouts and
\* their volume multipliers here; whether _generate_week_workouts hands them
\* over is followed in the week generation above, and the plan service
\* below starts from the plan as built.
generate_complete_plan(profile, measurements) ==
    [id |-> 0,
     user_id |-> profile.user_id,
     version |-> 1,
     status |-> "draft",
     parent_plan_id |-> None,
     regeneration_reason |-> None,
     workouts_per_week |->
         training_split_days(profile.gym_experience,
                             profile.preferred_training_days),
     volume_multiplier |-> volume_multipliers,
     nutrition_plan |-> generate_nutrition_plan(profile, measurements),
     profile_snapshot |-> profile,
     measurements_snapshot |-> measurements,
     safety_checks |-> <<>>,
     modifications |-> {},
     user_feedback |-> None,
     approved_by_user |-> FALSE,
     accepted_at |-> <<>>]

\* `increase > progression_limit` for increase = (current - previous) /
\* previous in double arithmetic: as in exact arithmetic, except that
\* (1.05 - 1.0) / 1.0 is 0.050000000000000044 and so above 0.05.
IncreaseAbove(previous, current, limit_pct) ==
    \/ (current - previous) * 100 > limit_pct * previous
    \/ previous = 100 /\ current = 105 /\ limit_pct = 5

\* SAFETY_LIMITS["progression_limits"], in percent
progression_limit(experience) ==
    CASE experience = "beginner" -> 5
      [] experience = "intermediate" -> 10
      [] OTHER -> 15

\* SAFETY_LIMITS["max_training_days"]
max_training_days(experience) ==
    CASE experience = "beginner" -> 4
      [] experience = "intermediate" -> 5
      [] OTHER -> 6

\* _check_exercise_progression
check_exercise_progression(multipliers, experience) ==
    \A i \in 2..Len(multipliers) :
        ~(/\ multipliers[i] > multipliers[i - 1]
          /\ IncreaseAbove(multipliers[i - 1], multipliers[i],
                           progression_limit(experience)))

\* SafetyValidator.validate_plan: a map of five booleans; no check raises.
validate_plan(plan, profile, measurements) ==
    [minimum_calories_met |->
         plan.nutrition_plan.calories >=
             (IF profile.sex = "male" THEN 1500 ELSE 1200),
     deficit_within_limits |->
         Abs(plan.nutrition_plan.calorie_adjustment) <= 25,
     protein_adequate |->
         10 * plan.nutrition_plan.protein_g >= 8 * measurements.weight_kg,
     training_frequency_safe |->
         plan.workouts_per_week <= max_training_days(profile.gym_experience),
     exercise_progression_safe |->
         check_exercise_progression(plan.volume_multiplier,
                                    profile.gym_experience)]

\* parse_feedback: the modifications it finds in the feedback
Feedbacks ==
    {"too hard", "replace squats with lunges", "reduce time to 30 minutes",
     "less carbs"}

parse_feedback(feedback) ==
    CASE feedback = "replace squats with lunges" -> {"replace_exercises"}
      [] feedback = "reduce time to 30 minutes" -> {"reduce_time"}
      [] feedback = "less carbs" -> {"change_nutrition"}
      [] OTHER -> {}

\* regenerate_with_feedback calls _reduce_workout_time and
\* _modify_nutrition_plan, which the class does not define.
RegenerationRaises(feedback) ==
    parse_feedback(feedback) \cap {"reduce_time", "change_nutrition"} # {}

\* regenerate_with_feedback, for a feedback it has a method for
regenerate_with_feedback(original_plan, feedback) ==
    [original_plan EXCEPT !.id = 0,
                          !.status = "draft",
                          !.user_feedback = feedback,
                          !.modifications = parse_feedback(feedback)]

Indices(table, user_id) ==
    {i \in DOMAIN table : table[i].user_id = user_id}

\* `latest_version + 1`, or 1 for the first row of the user
NextVersion(table, user_id) ==
    IF Indices(table, user_id) = {} THEN 1
    ELSE 1 + CHOOSE v \in {table[i].version : i \in Indices(table, user_id)} :
                 \A i \in Indices(table, user_id) : table[i].version <= v

\* `str(uuid.uuid4())`: an id no row has
NewId(table) == Len(table) + 1

\* store_plan: the row it inserts
store_plan(table, plan) ==
    Append(table, [plan EXCEPT !.version = NextVersion(table, plan.user_id),
                               !.id = NewId(table)])

\* get_plan_by_id: the indices of the rows with this id
PlanIndex(plan_id) == {i \in DOMAIN db_plans : db_plans[i].id = plan_id}

\* _create_plan_checkins: four weekly, two photo and one completion check-in
CheckInsPerPlan == 7

Returned(op, value) == [op |-> op, raised |-> FALSE, value |-> value]
Raised(op, error) == [op |-> op, raised |-> TRUE, value |-> error]

\* PlanService.generate_plan
PlanServiceGeneratePlan(user_id, measurement_data) ==
    /\ Len(db_plans) < MaxPlans
    /\ IF user_profiles[user_id] = <<>>
       THEN /\ svc_out' = <<Raised("generate_plan", "ValueError")>>
            /\ UNCHANGED <<db_plans, user_measurements, check_ins>>
       ELSE LET profile == user_profiles[user_id][1]
                measurements ==
                    [user_id |-> user_id,
                     version |-> NextVersion(user_measurements, user_id),
                     height_cm |-> measurement_data.height_cm,
                     weight_kg |-> measurement_data.weight_kg]
                plan == generate_complete_plan(profile, measurements)
                safety_results == validate_plan(plan, profile, measurements)
            IN  /\ user_measurements' =
                       Append(user_measurements, measurements)
                /\ db_plans' =
                       store_plan(db_plans,
                           [plan EXCEPT !.safety_checks = <<safety_results>>])
                /\ check_ins' = [check_ins EXCEPT
                                    ![user_id] = @ + CheckInsPerPlan]
                /\ svc_out' = <<Returned("generate_plan", NewId(db_plans))>>
    /\ UNCHANGED <<input_queue, output_queue, error_queue, keys, wpc, wtask,
                   cpc, ctask, cheld, cret, elapsed, nenq, deq_log, pub_log,
                   channel_log, apivars, pipevars, planvars>>

\* PlanService.regenerate_plan, with EnhancedGymDatabase.regenerate_plan
PlanServiceRegeneratePlan(original_plan_id, feedback) ==
    /\ Len(db_plans) < MaxPlans
    /\ IF PlanIndex(original_plan_id) = {}
       THEN /\ svc_out' = <<Raised("regenerate_plan", "ValueError")>>
            /\ UNCHANGED <<db_plans, check_ins>>
       ELSE IF RegenerationRaises(feedback)
       THEN /\ svc_out' = <<Raised("regenerate_plan", "AttributeError")>>
            /\ UNCHANGED <<db_plans, check_ins>>
       ELSE LET i == CHOOSE i \in PlanIndex(original_plan_id) : TRUE
                original_plan == db_plans[i]
                profile == original_plan.profile_snapshot
                measurements == original_plan.measurements_snapshot
                new_plan == regenerate_with_feedback(original_plan, feedback)
                safety_results ==
                    validate_plan(new_plan, profile, measurements)
                marked == [db_plans EXCEPT ![i].status = "regenerated"]
            IN  /\ db_plans' =
                       store_plan(marked,
                           [new_plan EXCEPT
                               !.safety_checks = <<safety_results>>,
                               !.parent_plan_id = original_plan_id,
                               !.regeneration_reason = feedback,
                               !.status = "draft"])
                /\ check_ins' = [check_ins EXCEPT
                                    ![original_plan.user_id] =
                                        @ + CheckInsPerPlan]
                /\ svc_out' = <<Returned("regenerate_plan", NewId(db_plans))>>
    /\ UNCHANGED <<user_measurements, input_queue, output_queue, error_queue,
                   keys, wpc, wtask, cpc, ctask, cheld, cret, elapsed, nenq,
                   deq_log, pub_log, channel_log, apivars, pipevars,
                   planvars>>

\* An accept that leaves the user's active plans as they are.
KeepActive(table, user_id) == table

\* accept_plan, its first update: the user's active plans become completed
DeactivateActive(table, user_id) ==
    [j \in DOMAIN table |->
        IF table[j].user_id = user_id /\ table[j].status = "active"
        THEN [table[j] EXCEPT !.status = "completed"]
        ELSE table[j]]

\* PlanService.accept_plan, that is EnhancedGymDatabase.accept_plan.  Its only
\* caller is a coroutine handler (api/profile.py) that awaits nothing on its
\* way, so the calls of one server process follow each other whole.
PlanServiceAcceptPlan(plan_id) ==
    /\ IF PlanIndex(plan_id) = {}
       THEN /\ svc_out' = <<Returned("accept_plan", FALSE)>>
            /\ UNCHANGED db_plans
       ELSE LET i == CHOOSE i \in PlanIndex(plan_id) : TRUE
                user_id == db_plans[i].user_id
                completed == DeactivateActive(db_plans, user_id)
            IN  /\ db_plans' = [completed EXCEPT
                                   ![i].status = "active",
                                   ![i].accepted_at = <<"now">>,
                                   ![i].approved_by_user = TRUE]
                /\ svc_out' = <<Returned("accept_plan", TRUE)>>
    /\ UNCHANGED <<user_measurements, check_ins, input_queue, output_queue,
                   error_queue, keys, wpc, wtask, cpc, ctask, cheld, cret,
                   elapsed, nenq, deq_log, pub_log, channel_log, apivars,
                   pipevars, planvars>>

\* The volume multipliers of the plans the audit is called with: those of
\* the generator, and rises of 62.5 % and of 50 % inside the range
\* WorkoutWeek allows (0.5 to 1.5).
AuditedMultipliers ==
    {volume_multipliers, <<80, 130, 130, 80>>, <<100, 150, 110, 80>>}

\* SafetyValidator.validate_plan, called with a plan of the generator whose
\* weeks carry these multipliers.
ValidatePlan(user_id, measurement_data, multipliers) ==
    /\ user_profiles[user_id] # <<>>
    /\ LET profile == user_profiles[user_id][1]
           measurements ==
               [user_id |-> user_id, version |-> 1,
                height_cm |-> measurement_data.height_cm,
                weight_kg |-> measurement_data.weight_kg]
           plan == [generate_complete_plan(profile, measurements)
                       EXCEPT !.volume_multiplier = multipliers]
       IN  svc_out' =
               <<Returned("validate_plan",
                          [plan |-> plan,
                           safety_results |->
                               validate_plan(plan, profile, measurements)])>>
    /\ UNCHANGED <<db_plans, user_measurements, check_ins, input_queue,
                   output_queue, error_queue, keys, wpc, wtask, cpc, ctask,
                   cheld, cret, elapsed, nenq, deq_log, pub_log, channel_log,
                   apivars, pipevars, planvars>>

InitService ==
    /\ ServiceIdle
    /\ PipeIdle
    /\ PlanIdle
    /\ ServiceTablesEmpty

NextService ==
    \/ \E user_id \in Users, measurement_data \in MeasurementData :
          PlanServiceGeneratePlan(user_id, measurement_data)
    \/ \E plan_id \in 1..MaxPlans, feedback \in Feedbacks :
          PlanServiceRegeneratePlan(plan_id, feedback)
    \/ \E plan_id \in 1..MaxPlans : PlanServiceAcceptPlan(plan_id)
    \/ \E user_id \in Users, measurement_data \in MeasurementData,
          multipliers \in AuditedMultipliers :
          ValidatePlan(user_id, measurement_data, multipliers)

SpecService == InitService /\ [][NextService]_vars

(***************************************************************************)
(* Properties of the work queue.                                           *)
(***************************************************************************)
Stream(name) == IF name = "output" THEN output_queue ELSE error_queue

Waiting(c) == cpc[c] \in {"poll_out", "requeue_out", "poll_err", "requeue_err"}

\* The number of places a pushed entry is in: on its stream, in the hands of a
\* waiter that is about to put it back on that stream, or returned to a waiter
\* that waits for its task id.
Places(x) ==
    Cardinality({i \in DOMAIN Stream(x[1]) : Stream(x[1])[i] = x[2]})
    + Cardinality({c \in Clients :
          /\ cheld[c] = <<x[2]>>
          /\ cpc[c] = IF x[1] = "output" THEN "requeue_out" ELSE "requeue_err"})
    + Cardinality({c \in Clients :
          /\ cret[c] = <<x[2]>>
          /\ ctask[c][1].task_id = x[2].task_id})

\* C1: an entry a waiter of get_task_result pops from the output or the error
\* queue and whose task id is not the waiter's goes back on the same queue: under
\* every interleaving of the waiters, every entry a worker has pushed is on its
\* queue, about to be put back on it by the waiter holding it, or returned to a
\* waiter for its own task id; none is lost to a waiter that does not own it.
C1_NonMatchingRequeued ==
    /\ \A x \in pub_log : Places(x) = 1
    /\ \A c \in Clients :
          cheld[c] # <<>> =>
             /\ cpc[c] \in {"requeue_out", "requeue_err"}
             /\ cheld[c][1].task_id # ctask[c][1].task_id

\* A waiter holds the result of the task another caller is still waiting for.
C1_Witness ==
    \E a, b \in Clients :
       /\ a # b
       /\ cpc[a] = "requeue_out"
       /\ Waiting(b)
       /\ cheld[a] = <<CHOOSE x \in {y[2] : y \in pub_log} : x.n = ctask[b][1].n>>

\* C2: when the waiter for task A has taken the result of task B off the output
\* queue while B's waiter is still waiting, B's waiter eventually receives that
\* result.
C2_WrongWaiterEventuallyDelivered ==
    \A a, b \in Clients :
       (/\ a # b
        /\ cpc[a] = "requeue_out"
        /\ Waiting(b)
        /\ cheld[a][1].n = ctask[b][1].n)
         ~> (cret[b] # <<>>)

C4_FifoDrain == \A i \in DOMAIN deq_log : deq_log[i] = i

\* Two workers hold tasks of two users at the same time.
C4_Witness ==
    /\ Len(deq_log) >= 2
    /\ \E v, w \in Workers :
          /\ v # w
          /\ wpc[v] = "process" /\ wpc[w] = "process"
          /\ wtask[v][1].user_id # wtask[w][1].user_id

\* C5: a caller that enqueued a task and waits for its task id receives the
\* outcome pushed for it whenever the worker pushed it before the wait times
\* out: no wait ends in TimeoutError with the outcome of its task pushed.
C5_PublishedBeforeTimeoutReceived ==
    [][\A c \in Clients :
          (cpc[c] \in {"poll_out", "get"} /\ cpc'[c] = "timeout")
             => PushesFor(ctask[c][1].n) = {}]_vars

C7_ChannelRecordObservable ==
    \A x \in pub_log :
       (/\ x[1] = "output"
        /\ ~\E w \in Workers : wpc[w] = "notify" /\ wtask[w][1].n = x[2].n)
          => /\ x[2] \in channel_log[x[2].user_id]
             /\ keys[x[2].user_id] # <<>>

(***************************************************************************)
(* Properties of the API process.                                          *)
(***************************************************************************)
Enqueued(c) == ctask[c] # <<>>

Responded(c) == resp[c] # <<>>

ReportedKinds(c) ==
    ({direct[c][i].result.error : i \in DOMAIN direct[c]}
     \cup (IF Enqueued(c)
           THEN {x[2].record.error :
                    x \in {y \in PushesFor(ctask[c][1].n) :
                              "record" \in DOMAIN y[2]}}
           ELSE {}))
    \ {None}

\* The response is an error that tells of the failed analysis: the error of
\* the result (upload_image) or its low quality (upload_and_analyze_image).
Surfaced(response) == response.status >= 400 /\ response.error # None

\* C9: when the pipeline has reported an error kind for an upload, the
\* response to the upload is an error that tells so, the fallback record that
\* came with it is not stored as a valid vision record, and no plan is made or
\* stored from it.
C9_VisionErrorsSurfaced ==
    /\ \A c \in Clients :
          Responded(c) =>
             (ReportedKinds(c) # {} => Surfaced(resp[c][1]))
    /\ \A u \in Users :
          /\ \A i \in DOMAIN vision_metrics[u] :
                vision_metrics[u][i].error = None
          /\ \A i \in DOMAIN vision_analyses[u] :
                vision_analyses[u][i].of.error = None
    /\ \A plan \in plans : plan.vision.of.error = None

\* The ranges of a vision record in the units of the model.
ValidRecord(bf_estimate, anthro, quality) ==
    /\ bf_estimate >= 30 /\ bf_estimate <= 600
    /\ \A field \in DOMAIN anthro : anthro[field] > 0
    /\ quality >= 700

\* C10: every vision record emitted as valid, that is returned by the pipeline
\* or a worker without an error kind, returned in a response, or stored, has
\* 3 <= bfEstimate <= 60, every anthropometric field > 0 and quality >= 0.70.
C10_ValidRecordRanges ==
    /\ \A x \in pub_log :
          x[1] = "output" =>
             ValidRecord(x[2].record.bf_estimate, x[2].record.anthro,
                         x[2].record.imageQuality)
    /\ \A c \in Clients : \A i \in DOMAIN direct[c] :
          direct[c][i].result.error = None =>
             ValidRecord(direct[c][i].result.bf_estimate,
                         direct[c][i].result.anthro,
                         direct[c][i].result.imageQuality)
    /\ \A u \in Users :
          /\ \A i \in DOMAIN vision_metrics[u] :
                ValidRecord(vision_metrics[u][i].bf_estimate,
                            vision_metrics[u][i].anthro,
                            vision_metrics[u][i].imageQuality)
          /\ \A i \in DOMAIN vision_analyses[u] :
                ValidRecord(vision_analyses[u][i].analysis.bfEstimate,
                            vision_analyses[u][i].analysis.anthro,
                            vision_analyses[u][i].analysis.quality)

(***************************************************************************)
(* Properties of the vision pipeline.                                      *)
(***************************************************************************)
\* The run has ended and `stage` raised while it ran.
RaisedIn(stage) == ppc = "done" /\ stage \in pran /\ Raises(stage)

FallbackRecord(response) ==
    /\ response.anthro = error_response(None, 0).anthro
    /\ response.confidence = "low"

\* C11: a finished run answers low_quality exactly when stage 1 returned a
\* score below the 0.70 gate (0.70 itself passes, 0.699 does not), and a stage
\* after stage 1 runs only when the score passed the gate.
C11_LowQualityIffBelowGate ==
    /\ ppc = "done" =>
          ((pres[1].error = "low_quality") <=>
               (~Raises("stage1") /\ pin.img.quality < MinQualityScore))
    /\ pran \ {"stage1"} # {} =>
          (~Raises("stage1") /\ pin.img.quality >= MinQualityScore)

C11_Witness ==
    /\ ppc = "done"
    /\ pin.img.quality = MinQualityScore - 1
    /\ pres[1].error = "low_quality"
    /\ pran = {"stage1"}

Emitted == generated # <<>>
TheProfile == contract.profile[1]
TheWizard == contract.wizard[1]
TheVision == contract.vision[1]
Rows == Range(generated[1].training_mesocycle)
Nutrition == generated[1].weekly_nutrition_targets[1]

\* What str.lower() makes of the exercise names of the plans.
LowerName(name) ==
    CASE name = "Overhead Press" -> "overhead press"
      [] name = "Pull-ups" -> "pull-ups"
      [] name = "Pull-ups/Lat Pulldown" -> "pull-ups/lat pulldown"
      [] name = "Lunge" -> "lunge"
      [] name = "Deadlift" -> "deadlift"
      [] name = "Romanian Deadlift" -> "romanian deadlift"
      [] name = "Romanian Deadlift (Dumbbells)" ->
             "romanian deadlift (dumbbells)"
      [] name = "Bent-over Row" -> "bent-over row"
      [] name = "Squat" -> "squat"
      [] name = "Goblet Squat" -> "goblet squat"
      [] name = "Front Squat" -> "front squat"
      [] name = "Bulgarian Split Squat" -> "bulgarian split squat"
      [] name = "Leg Press" -> "leg press"
      [] name = "Push-ups" -> "push-ups"
      [] name = "Incline Push-ups" -> "incline push-ups"
      [] name = "Plank" -> "plank"
      [] name = "Dips" -> "dips"
      [] name = "Dips/Tricep Press" -> "dips/tricep press"
      [] name = "Face Pulls" -> "face pulls"
      [] name = "Wall Angels" -> "wall angels"
      [] name = "Doorway Chest Stretch" -> "doorway chest stretch"
      [] name = "Hip Flexor Stretch" -> "hip flexor stretch"
      [] name = "Dead Bug" -> "dead bug"
      [] name = "Glute Bridge" -> "glute bridge"
      [] name = "Chin Tucks" -> "chin tucks"
      [] name = "Upper Trap Stretch" -> "upper trap stretch"

\* C13: no row of an emitted plan names, whatever its letter case, an
\* exercise of the blocked set of an injury of the wizard.
C13_InjuryExclusionsHonored ==
    Emitted =>
        \A row \in Rows :
            LowerName(row.exercise) \notin
                validate_safety([profile |-> TheProfile, wizard |-> TheWizard,
                                 vision |-> TheVision]).blocked_exercises

\* SAFETY_LIMITS["min_calories"], in kcal
min_calories == [male |-> 1500, female |-> 1200]

\* C14: the daily energy of an emitted plan is at least the minimum of the
\* user's sex, 1500 kcal for male and 1200 kcal for female at 4.184 kJ the
\* kcal.
C14_MinimumEnergyMet ==
    (Emitted /\ TheProfile.sex \in DOMAIN min_calories) =>
        1000 * Nutrition.kJ_per_day >= 4184 * min_calories[TheProfile.sex]

\* C15: the protein of an emitted plan is at least 0.8 g per kg of weight.
C15_ProteinAdequate ==
    Emitted => 10 * Nutrition.protein_g >= 8 * TheWizard.weightKg

PoseAlerts ==
    {"rounded_shoulders", "anterior_pelvic_tilt", "forward_head",
     "asymmetric_shoulders", "knee_valgus"}

\* C16: for every pose alert of the vision record an emitted plan has a
\* daily corrective row that addresses this alert.
C16_EveryAlertHasCorrective ==
    Emitted =>
        \A alert \in Range(TheVision.poseAlerts) \cap PoseAlerts :
            \E row \in Rows :
                /\ row.day = "Daily"
                /\ row \in Range(corrective_for(alert))

\* The entries of exercises_db with equipment "barbell".
RequiresBarbell(name) ==
    name \in {"Bench Press", "Incline Press", "Bent-over Row", "Deadlift",
              "Overhead Press", "Romanian Deadlift"}

\* C17: with "no barbell" among the equipment limits, no row of an emitted
\* plan is a barbell movement.
C17_NoBarbellHonored ==
    (Emitted /\ "no barbell" \in Range(TheWizard.equipLimits)) =>
        \A row \in Rows : ~RequiresBarbell(row.exercise)

\* The request was answered and all three documents were there.
Answered ==
    /\ plan_resp # <<>>
    /\ contract.profile # <<>>
    /\ contract.wizard # <<>>
    /\ contract.vision # <<>>

KidSafeAnswer(response) ==
    /\ response.status = 200
    /\ response.body # <<>>
    /\ response.body[1].type = "kid_safe_plan"
    /\ response.body[1].plan.activities # <<>>
    /\ response.body[1].plan.nutrition = "no calorie counting"
    /\ response.body[1].plan.disclaimer = "Consult pediatrician"

\* C18: a request for a profile of an age below 13 is answered with the
\* kid-safe plan (activities, no calorie numbers, pediatric disclaimer), and
\* one for an age of 13 or more goes through the normal synthesis.
C18_UnderThirteenGetsKidSafePlan ==
    (Answered /\ ValidWizardInputs(TheWizard)
              /\ ValidVisionAnalysis(TheVision)) =>
        IF TheProfile.age < 13
        THEN KidSafeAnswer(plan_resp[1])
        ELSE Emitted

(***************************************************************************)
(* Properties of the plan service.                                         *)
(***************************************************************************)
\* A regeneration that stored a plan in this step: its last answer is the
\* id of the new row.
Regenerated ==
    /\ svc_out' # <<>>
    /\ svc_out'[1].op = "regenerate_plan"
    /\ ~svc_out'[1].raised

ProgressionAboveHalf(multipliers) ==
    \E i \in 2..Len(multipliers) :
        (multipliers[i] - multipliers[i - 1]) * 100 > 50 * multipliers[i - 1]

Unpublished == {n \in Range(deq_log) : PushesFor(n) = {}}

HasSplit(protein, carb, fat) ==
    /\ Nutrition.protein_g = (Nutrition.kJ_per_day * protein * 5) \div 8368
    /\ Nutrition.carbs_g = (Nutrition.kJ_per_day * carb * 5) \div 8368
    /\ Nutrition.fat_g = (Nutrition.kJ_per_day * fat * 5) \div 18828

\* C23: a bfEstimate of exactly 25.0 selects the high-body-fat split (protein
\* 0.35, carbs 0.40, fat 0.25), and a bfEstimate of 24.9 the default split
\* (protein 0.30, carbs 0.45, fat 0.25).
C23_MacroSplitBoundary ==
    Emitted =>
       /\ TheVision.bfEstimate = 250 => HasSplit(35, 40, 25)
       /\ TheVision.bfEstimate = 249 => HasSplit(30, 45, 25)

(***************************************************************************)
(* Properties of the body-composition estimate.                            *)
(***************************************************************************)
\* math.log10 is called on an argument that is not positive: waist <= neck
\* for a male, waist + hip <= neck for a female.
NavyDomainError ==
    LET a == pin.anthro_data
        hip == IF a.hip_cm = 0 THEN RoundDiv(a.waist_cm * 11, 10) ELSE a.hip_cm
    IN  IF IsMale(pin.user_sex) THEN a.waist_cm <= a.neck_cm
        ELSE a.waist_cm + hip <= a.neck_cm

\* C24: when the Navy formula hits a domain error, the Navy value is the
\* default of the sex (male 15, female 23) and the confidence of the result
\* is low.
C24_NavyFallbackLowConfidence ==
    (pres # <<>> /\ NavyDomainError) =>
       /\ pres[1].navy_bf = IF IsMale(pin.user_sex) THEN 1500 ELSE 2300
       /\ pres[1].confidence = "low"

\* The same, the Navy value only.
C24_NavyFallbackDefault ==
    (pres # <<>> /\ NavyDomainError) =>
       pres[1].navy_bf = IF IsMale(pin.user_sex) THEN 1500 ELSE 2300

\* The largest difference between two of the three estimates, in hundredths.
MaxPairwise(r) ==
    Max(Abs(r.navy_bf - r.visual_bf),
        Max(Abs(r.navy_bf - r.ratio_bf), Abs(r.visual_bf - r.ratio_bf)))

\* C30: the confidence is decided by the maximum pairwise difference of the
\* three estimates: below 3 percentage points high, below 6 medium, otherwise
\* low.
C30_ConfidenceByPairwiseDifference ==
    pres # <<>> =>
       pres[1].confidence =
          IF MaxPairwise(pres[1]) < 300 THEN "high"
          ELSE IF MaxPairwise(pres[1]) < 600 THEN "medium" ELSE "low"

(***************************************************************************)
(* Properties of the validation functions.                                 *)
(***************************************************************************)
\* The checks of _validate_safety that the contract of the call violates.
SafetyViolations ==
    LET c == pin.data_contract
    IN  (IF c.profile.age < 13 THEN {"under 13"} ELSE {})
        \cup (IF c.wizard.heightCm < 100 \/ c.wizard.heightCm > 230
              THEN {"height"} ELSE {})
        \cup (IF c.wizard.weightKg < 30 \/ c.wizard.weightKg > 300
              THEN {"weight"} ELSE {})
        \cup (IF c.vision.bfEstimate < 30 \/ c.vision.bfEstimate > 600
              THEN {"body fat"} ELSE {})
        \cup (IF c.vision.quality < 700 THEN {"image quality"} ELSE {})

\* The checks of validate_ranges that the arguments of the call violate.
RangeViolations ==
    (IF pin.height_cm < 100 \/ pin.height_cm > 230
     THEN {"height_cm"} ELSE {})
    \cup (IF pin.weight_kg < 30 \/ pin.weight_kg > 300
          THEN {"weight_kg"} ELSE {})
    \cup (IF pin.bf_pct < 30 \/ pin.bf_pct > 600
          THEN {"body_fat_pct"} ELSE {})

\* The checks of validate_profile_data that the profile of the call violates.
ProfileViolations ==
    LET p == pin.profile_data
    IN  (IF p.full_name = <<>> THEN {"full_name required"} ELSE {})
        \cup (IF Len(p.full_name) = 1
              THEN {"full_name length"} ELSE {})
        \cup (IF p.age < 13 THEN {"age below 13"} ELSE {})
        \cup (IF p.age > 100 THEN {"age above 100"} ELSE {})
        \cup (IF p.sex \notin {"male", "female"} THEN {"sex"} ELSE {})
        \cup (IF p.primary_fitness_goal = "bulk"
              THEN {"primary_fitness_goal"} ELSE {})
        \cup (IF p.preferred_training_days \notin 3..6
              THEN {"preferred_training_days"} ELSE {})

C25_ListsAccumulate ==
    (pres # <<>> /\ pin.fn # "validate_safety") =>
       IF pin.fn = "validate_ranges"
       THEN RangeViolations = Range(pres[1])
       ELSE ProfileViolations = Range(pres[1])

(***************************************************************************)
(* Properties of the plan status.                                          *)
(***************************************************************************)
ActivePlans(user_id) ==
    {i \in DOMAIN db_plans :
        db_plans[i].user_id = user_id /\ db_plans[i].status = "active"}

ToppedUp ==
    Prefix(pran.exercises
           \o get_additional_exercises(WeekSplit[WeekDay], pin.gym_experience),
           8)

\* C27: the loop that tops a day up to five exercises always exits: whenever
\* its test len(exercises) < 5 holds, the iteration leaves more exercises
\* than it found, so that after at most five iterations the test fails;
\* this includes the days whose muscle groups contain core and whose
\* selection has fewer than five exercises.
C27_TopUpLoopExits ==
    (ppc = "while" /\ Len(pran.exercises) < 5)
        => Len(ToppedUp) > Len(pran.exercises)

\* Every split ends with a day that has core among its muscle groups and
\* fewer than five selected exercises: no call returns.
WeekNeverReturns == ppc # "done"

(***************************************************************************)
(* Properties of the task ids                                              *)
(***************************************************************************)
\* The callers whose task is outstanding: enqueued, and its caller has
\* neither received an outcome nor given up.
Outstanding == {c \in Clients : ctask[c] # <<>> /\ cret[c] = <<>>
                                   /\ cpc[c] # "timeout"}

\* C28: two tasks outstanding at the same time carry distinct task ids,
\* also when they were enqueued without an explicit id, and the outcome a
\* waiter that matches by task id receives is the outcome of its own task.
C28_DistinctTaskIds ==
    /\ \A c, d \in Outstanding :
          c # d => ctask[c][1].task_id # ctask[d][1].task_id
    /\ \A c \in Clients :
          (cret[c] # <<>> /\ cpc[c] = "done") => cret[c][1].n = ctask[c][1].n

\* The ids a caller names itself and the ids of queue_async: with them the
\* waiter receives only the outcome of its own task.
C28_UuidTaskIds ==
    \A c \in Clients :
        (cret[c] # <<>> /\ cpc[c] = "done") => cret[c][1].n = ctask[c][1].n

====
